---- MODULE Spec2Model ----
(***************************************************************************)
(* Model of dfcx/dfcx_functions.py (class DialogflowFunctions): the        *)
(* identity index builders, the page / start-page reference rewriters,     *)
(* the dependency extractor and the agent-to-agent copy operations.        *)
(*                                                                         *)
(* Strings that are resource paths are modelled as the sequence of their   *)
(* '/'-separated segments, so that s.split('/')[-1] is the last element    *)
(* and a + '/pages/END_FLOW' is a \o <<"pages", "END_FLOW">>.  A display   *)
(* name is a one-segment string, the empty string is <<>>.                 *)
(***************************************************************************)
EXTENDS Naturals, Sequences, FiniteSets, TLC

VARIABLES
  svc,      \* the agent-management service: agent id -> its resource lists
  heap,     \* the Python objects the caller and the callee hold, by reference
  ret,      \* outcome of the last operation: returned reference / value or the raised KeyError
  pc,       \* position of the caller's script
  calls,    \* collaborator calls issued by the last copy operation, in order
  args      \* the arguments of the copy operations (selection, skip_list, ...)

vars == <<svc, heap, ret, pc, calls, args>>

----------------------------------------------------------------------------
(* Bounds of the model                                                     *)

MaxLen == 2        \* longest repeated field (routes, handlers, parameters, route-group refs)

----------------------------------------------------------------------------
(* Strings and identifier paths                                            *)

Empty == <<>>

Last(s) == s[Len(s)]

Project == <<"projects", "P", "locations", "global">>
AgentA == Project \o <<"agents", "A">>
AgentB == Project \o <<"agents", "B">>

DefaultStartFlow == <<"Default Start Flow">>

FlowA == AgentA \o <<"flows", "f0">>
FlowB == AgentB \o <<"flows", "g0">>

SysNumber == <<"projects", "-", "locations", "-", "agents", "-", "entityTypes", "sys.number">>
SysTokens == {"sys.number"}

\* 'sys.' in s
ContainsSys(s) == \E i \in DOMAIN s : s[i] \in SysTokens

\* name.split('/')[0:n] joined again
Prefix(s, n) == SubSeq(s, 1, IF Len(s) < n THEN Len(s) ELSE n)

IsUnder(name, parent) == Len(name) >= Len(parent) /\ Prefix(name, Len(parent)) = parent

RECURSIVE SeqsUpTo(_, _)
SeqsUpTo(S, n) ==
  IF n = 0 THEN {<<>>}
  ELSE LET shorter == SeqsUpTo(S, n - 1)
       IN  shorter \cup {Append(s, x) : s \in {t \in shorter : Len(t) = n - 1}, x \in S}

----------------------------------------------------------------------------
(* Outcome of a step that may raise KeyError: the (possibly partly         *)
(* mutated) object, and the missing key when the lookup raised             *)

Ok(v) == [val |-> v, raised |-> FALSE, key |-> Empty]
Fail(v, k) == [val |-> v, raised |-> TRUE, key |-> k]

\* m.get(k, k) instead of m[k]: a missing key passes through
LookupOrKeep(m, k, v) == IF k \in DOMAIN m THEN Ok(m[k]) ELSE Ok(k)

\* m[k] on a Python dict
Lookup(m, k, v) == IF k \in DOMAIN m THEN Ok(m[k]) ELSE Fail(v, k)

\* for x in s: <body>, the body mutating x in place, where r[i] is the outcome
\* of the body on s[i]: the loop stops at the first KeyError, leaving the
\* elements before it rewritten and the ones after it untouched
ForEach(s, r) ==
  IF s = <<>> THEN Ok(s)
  ELSE LET bad == {i \in DOMAIN s : r[i].raised}
       IN  IF bad = {} THEN Ok([i \in DOMAIN s |-> r[i].val])
           ELSE LET k == CHOOSE i \in bad : \A j \in bad : i <= j
                IN  Fail([i \in DOMAIN s |-> IF i <= k THEN r[i].val ELSE s[i]], r[k].key)

----------------------------------------------------------------------------
(* The agent-management collaborator (self.dfcx): listing calls            *)

AgentOf(name) == Prefix(name, 6)

list_flows(s, agent_id) == s[agent_id].flows
list_intents(s, agent_id) == s[agent_id].intents
list_entity_types(s, agent_id) == s[agent_id].entity_types
list_webhooks(s, agent_id) == s[agent_id].webhooks
list_pages(s, flow_id) ==
  IF AgentOf(flow_id) \in DOMAIN s
  THEN SelectSeq(s[AgentOf(flow_id)].pages, LAMBDA p : IsUnder(p.name, flow_id))
  ELSE <<>>
list_transition_route_groups(s, flow_id) ==
  IF AgentOf(flow_id) \in DOMAIN s
  THEN SelectSeq(s[AgentOf(flow_id)].route_groups, LAMBDA g : IsUnder(g.name, flow_id))
  ELSE <<>>

----------------------------------------------------------------------------
(* Identity index builders: a dict comprehension over a listing, a later   *)
(* element overwriting an earlier one with the same key                    *)

\* a comprehension in which the first element with a key would stay
FirstWith(list, key, byName) ==
  CHOOSE i \in DOMAIN list :
    /\ (IF byName THEN list[i].name ELSE list[i].display_name) = key
    /\ \A j \in DOMAIN list :
         (IF byName THEN list[j].name ELSE list[j].display_name) = key => i <= j

LastWith(list, key, byName) ==
  CHOOSE i \in DOMAIN list :
    /\ (IF byName THEN list[i].name ELSE list[i].display_name) = key
    /\ \A j \in DOMAIN list :
         (IF byName THEN list[j].name ELSE list[j].display_name) = key => j <= i

\* {x.name: x.display_name for x in list}
ForwardMap(list) ==
  [k \in {list[i].name : i \in DOMAIN list} |-> list[LastWith(list, k, TRUE)].display_name]

\* {x.display_name: x.name for x in list}
ReverseMap(list) ==
  [k \in {list[i].display_name : i \in DOMAIN list} |-> list[LastWith(list, k, FALSE)].name]

get_flows_map(s, agent_id, reverse) ==
  IF reverse THEN ReverseMap(list_flows(s, agent_id)) ELSE ForwardMap(list_flows(s, agent_id))

get_intents_map(s, agent_id, reverse) ==
  IF reverse THEN ReverseMap(list_intents(s, agent_id)) ELSE ForwardMap(list_intents(s, agent_id))

get_entities_map(s, agent_id, reverse) ==
  IF reverse THEN ReverseMap(list_entity_types(s, agent_id))
  ELSE ForwardMap(list_entity_types(s, agent_id))

get_webhooks_map(s, agent_id, reverse) ==
  IF reverse THEN ReverseMap(list_webhooks(s, agent_id)) ELSE ForwardMap(list_webhooks(s, agent_id))

get_pages_map(s, flow_id, reverse) ==
  IF reverse THEN ReverseMap(list_pages(s, flow_id)) ELSE ForwardMap(list_pages(s, flow_id))

get_route_groups_map(s, flow_id, reverse) ==
  IF reverse THEN ReverseMap(list_transition_route_groups(s, flow_id))
  ELSE ForwardMap(list_transition_route_groups(s, flow_id))

----------------------------------------------------------------------------
(* Reference rewriter for pages: convert_page_dependencies                 *)
(*                                                                         *)
(* A rewriting step takes the outcome r of the statements before it: when  *)
(* one of them raised, the step is skipped; otherwise it works on r.val.   *)

PageSentinels == {"END_FLOW", "END_SESSION", "CURRENT_PAGE"}

\* a source branch that knows END_FLOW only
TargetPageSourceEndFlowOnly(t, pages_map) ==
  IF Last(t) = "END_FLOW" THEN Ok(<<Last(t)>>) ELSE Lookup(pages_map, t, t)

\* source branch, a target_page that is set
TargetPageSource(t, pages_map) ==
  IF Last(t) \in PageSentinels THEN Ok(<<Last(t)>>) ELSE Lookup(pages_map, t, t)

\* destination branch, a target_page that is set
TargetPageDestination(t, pages_map, flow_id) ==
  IF t \in {<<x>> : x \in PageSentinels}
  THEN Ok(flow_id \o <<"pages">> \o t)
  ELSE Lookup(pages_map, t, t)

TargetPage(t, m) ==
  IF m.direction = "source" THEN TargetPageSource(t, m.pages)
  ELSE TargetPageDestination(t, m.pages, m.flow_id)

\* x.<field> = <looked up value>, the assignment not happening when the lookup raised
SetTarget(x, t) ==
  IF t.raised THEN Fail(x, t.key) ELSE Ok([x EXCEPT !.target_page = t.val])
SetTriggerWebhook(x, w) ==
  IF w.raised THEN Fail(x, w.key) ELSE Ok([x EXCEPT !.trigger_fulfillment.webhook = w.val])
SetIntent(tr, i) ==
  IF i.raised THEN Fail(tr, i.key) ELSE Ok([tr EXCEPT !.intent = i.val])
SetInitialPromptWebhook(param, w) ==
  IF w.raised THEN Fail(param, w.key)
  ELSE Ok([param EXCEPT !.fill_behavior.initial_prompt_fulfillment.webhook = w.val])
SetEntityType(param, e) ==
  IF e.raised THEN Fail(param, e.key) ELSE Ok([param EXCEPT !.entity_type = e.val])
SetPageName(page, n) ==
  IF n.raised THEN Fail(page, n.key) ELSE Ok([page EXCEPT !.name = n.val])
SetEntryWebhook(page, w) ==
  IF w.raised THEN Fail(page, w.key) ELSE Ok([page EXCEPT !.entry_fulfillment.webhook = w.val])

\* the elements of a repeated field after a loop over them
SetRepromptHandlers(param, r) ==
  [r EXCEPT !.val = [param EXCEPT !.fill_behavior.reprompt_event_handlers = r.val]]
SetTransitionRoutes(page, r) == [r EXCEPT !.val = [page EXCEPT !.transition_routes = r.val]]
SetEventHandlers(page, r) == [r EXCEPT !.val = [page EXCEPT !.event_handlers = r.val]]
SetParameters(page, r) == [r EXCEPT !.val = [page EXCEPT !.form.parameters = r.val]]

\* x.target_page rewritten when 'target_page' in x
RewriteTarget(r, m) ==
  IF r.raised \/ r.val.target_page = Empty THEN r
  ELSE SetTarget(r.val, TargetPage(r.val.target_page, m))

\* x.trigger_fulfillment.webhook rewritten when 'webhook' in x.trigger_fulfillment
RewriteTriggerWebhook(r, m) ==
  IF r.raised \/ r.val.trigger_fulfillment.webhook = Empty THEN r
  ELSE SetTriggerWebhook(r.val, Lookup(m.webhooks, r.val.trigger_fulfillment.webhook, Empty))

\* a trigger rewriting that forgets the webhook of an intent-triggered route
RewriteTriggerNoIntentWebhook(r, m) ==
  IF r.raised THEN r
  ELSE IF r.val.intent # Empty
       THEN SetIntent(r.val, Lookup(m.intents, r.val.intent, Empty))
       ELSE IF r.val.condition # "" /\ r.val.trigger_fulfillment.webhook # Empty
            THEN RewriteTriggerWebhook(r, m)
            ELSE r

\* the intent / condition part of a transition route
RewriteTrigger(r, m) ==
  IF r.raised THEN r
  ELSE IF r.val.intent # Empty
       THEN RewriteTriggerWebhook(SetIntent(r.val, Lookup(m.intents, r.val.intent, Empty)), m)
       ELSE IF r.val.condition # "" /\ r.val.trigger_fulfillment.webhook # Empty
            THEN RewriteTriggerWebhook(r, m)
            ELSE r

\* one transition route of a page: target page, then intent and webhook
RewriteTransitionRoute(tr, m) == RewriteTrigger(RewriteTarget(Ok(tr), m), m)

\* one event handler of a page: target page, then webhook
RewriteEventHandler(handler, m) == RewriteTriggerWebhook(RewriteTarget(Ok(handler), m), m)

\* one reprompt event handler of a form parameter: webhook, then target page
RewriteRepromptHandler(handler, m) == RewriteTarget(RewriteTriggerWebhook(Ok(handler), m), m)

\* a form parameter whose initial-prompt webhook is left as it is
RewriteInitialPromptSkipped(r, m) == r

RewriteInitialPrompt(r, m) ==
  IF r.raised \/ r.val.fill_behavior.initial_prompt_fulfillment.webhook = Empty THEN r
  ELSE SetInitialPromptWebhook(
         r.val, Lookup(m.webhooks, r.val.fill_behavior.initial_prompt_fulfillment.webhook, Empty))

RewriteRepromptHandlers(r, m) ==
  IF r.raised THEN r
  ELSE SetRepromptHandlers(
         r.val,
         ForEach(r.val.fill_behavior.reprompt_event_handlers,
                 [i \in DOMAIN r.val.fill_behavior.reprompt_event_handlers |->
                    RewriteRepromptHandler(r.val.fill_behavior.reprompt_event_handlers[i], m)]))

\* an entity type looked up whether built-in or not
RewriteEntityTypeSysToo(r, m) ==
  IF r.raised THEN r
  ELSE SetEntityType(r.val, Lookup(m.entities, r.val.entity_type, Empty))

RewriteEntityType(r, m) ==
  IF r.raised \/ ContainsSys(r.val.entity_type) THEN r
  ELSE SetEntityType(r.val, Lookup(m.entities, r.val.entity_type, Empty))

\* one form parameter: fill behaviour, then entity type
RewriteParameter(param, m) ==
  RewriteEntityType(RewriteRepromptHandlers(RewriteInitialPrompt(Ok(param), m), m), m)

\* page.name = pages_map[page.display_name], in the destination branch only
RewritePageName(r, m) ==
  IF r.raised \/ m.direction = "source" THEN r
  ELSE SetPageName(r.val, Lookup(m.pages, r.val.display_name, Empty))

RewriteEntryFulfillment(r, m) ==
  IF r.raised \/ r.val.entry_fulfillment.webhook = Empty THEN r
  ELSE SetEntryWebhook(r.val, Lookup(m.webhooks, r.val.entry_fulfillment.webhook, Empty))

RewriteTransitionRoutes(r, m) ==
  IF r.raised THEN r
  ELSE SetTransitionRoutes(
         r.val,
         ForEach(r.val.transition_routes,
                 [i \in DOMAIN r.val.transition_routes |->
                    RewriteTransitionRoute(r.val.transition_routes[i], m)]))

RewriteEventHandlers(r, m) ==
  IF r.raised THEN r
  ELSE SetEventHandlers(
         r.val,
         ForEach(r.val.event_handlers,
                 [i \in DOMAIN r.val.event_handlers |->
                    RewriteEventHandler(r.val.event_handlers[i], m)]))

RewriteForm(r, m) ==
  IF r.raised THEN r
  ELSE SetParameters(
         r.val,
         ForEach(r.val.form.parameters,
                 [i \in DOMAIN r.val.form.parameters |->
                    RewriteParameter(r.val.form.parameters[i], m)]))

\* a loop that stops at the assignment: the first reference only is translated
RewriteRouteGroupsFirstOnly(r, m) ==
  IF r.raised \/ r.val.transition_route_groups = <<>> THEN r
  ELSE IF Head(r.val.transition_route_groups) \in DOMAIN m.rgs
       THEN Ok([r.val EXCEPT !.transition_route_groups =
                               <<m.rgs[Head(r.val.transition_route_groups)]>>])
       ELSE Fail(r.val, Head(r.val.transition_route_groups))

\* The route-group references.  In the source branch the assignment
\* page.transition_route_groups = temp_list sits inside the loop, which goes on
\* over the container it started with: when a lookup raises, the page is left
\* with the references translated so far.  In the destination branch the
\* assignment follows the loop.
RewriteRouteGroups(r, m) ==
  IF r.raised \/ r.val.transition_route_groups = <<>> THEN r
  ELSE LET page == r.val
           refs == r.val.transition_route_groups
           bad == {i \in DOMAIN refs : refs[i] \notin DOMAIN m.rgs}
       IN  IF bad = {}
           THEN Ok([page EXCEPT !.transition_route_groups =
                                  [i \in DOMAIN refs |-> m.rgs[refs[i]]]])
           ELSE LET k == CHOOSE i \in bad : \A j \in bad : i <= j
                IN  IF m.direction = "source" /\ k > 1
                    THEN Fail([page EXCEPT !.transition_route_groups =
                                              [i \in 1..(k - 1) |-> m.rgs[refs[i]]]], refs[k])
                    ELSE Fail(page, refs[k])

\* one page: name, entry fulfillment, routes, event handlers, form, route groups
RewritePage(page, m) ==
  RewriteRouteGroups(
    RewriteForm(
      RewriteEventHandlers(
        RewriteTransitionRoutes(
          RewriteEntryFulfillment(
            RewritePageName(Ok(page), m), m), m), m), m), m)

\* flows_map[flow], which raises when the agent has no flow of that display name
FlowId(s, agent_id, flow) == Lookup(get_flows_map(s, agent_id, TRUE), flow, Empty)

\* the index maps of the source branch, given flows_map[flow]
SourceMaps(s, agent_id, f) ==
  IF f.raised THEN Fail(Empty, f.key)
  ELSE Ok([direction |-> "source",
           intents |-> get_intents_map(s, agent_id, FALSE),
           entities |-> get_entities_map(s, agent_id, FALSE),
           webhooks |-> get_webhooks_map(s, agent_id, FALSE),
           flow_id |-> f.val,
           pages |-> get_pages_map(s, f.val, FALSE),
           rgs |-> get_route_groups_map(s, f.val, FALSE)])

\* the index maps of the destination branch, given flows_map[flow]
DestinationMaps(s, agent_id, f) ==
  IF f.raised THEN Fail(Empty, f.key)
  ELSE Ok([direction |-> "destination",
           intents |-> get_intents_map(s, agent_id, TRUE),
           entities |-> get_entities_map(s, agent_id, TRUE),
           webhooks |-> get_webhooks_map(s, agent_id, TRUE),
           flow_id |-> f.val,
           pages |-> get_pages_map(s, f.val, TRUE),
           rgs |-> get_route_groups_map(s, f.val, TRUE)])

IndexMaps(s, agent_id, agent_type, flow) ==
  IF agent_type = "source" THEN SourceMaps(s, agent_id, FlowId(s, agent_id, flow))
  ELSE DestinationMaps(s, agent_id, FlowId(s, agent_id, flow))

\* pages_mod = pages: no copy, the callee works on the caller's object
NoCopy(h, r) == [heap |-> h, ref |-> r]

\* pages_mod = copy.deepcopy(pages): a new object, equal to the old one
deepcopy(h, r) == [heap |-> Append(h, h[r]), ref |-> Len(h) + 1]

\* for page in pages_mod: ..., with the index maps mr (or the KeyError building them)
RewritePages(pages_mod, mr) ==
  IF mr.raised THEN Fail(pages_mod, mr.key)
  ELSE ForEach(pages_mod, [i \in DOMAIN pages_mod |-> RewritePage(pages_mod[i], mr.val)])

\* the body of convert_page_dependencies on pages_mod
ConvertPages(pages_mod, s, agent_id, agent_type, flow) ==
  IF agent_type \notin {"source", "destination"} THEN Ok(pages_mod)
  ELSE RewritePages(pages_mod, IndexMaps(s, agent_id, agent_type, flow))

\* what a rewriter leaves: the heap with the rewritten copy c, and the returned
\* reference or the KeyError
Outcome(c, out) ==
  [heap |-> [c.heap EXCEPT ![c.ref] = out.val],
   raised |-> out.raised, key |-> out.key, ref |-> IF out.raised THEN 0 ELSE c.ref]

ConvertCopy(c, s, agent_id, agent_type, flow) ==
  Outcome(c, ConvertPages(c.heap[c.ref], s, agent_id, agent_type, flow))

\* convert_page_dependencies(agent_id, pages, agent_type, flow) on the object
\* referenced by r
convert_page_dependencies(h, s, agent_id, r, agent_type, flow) ==
  ConvertCopy(deepcopy(h, r), s, agent_id, agent_type, flow)

----------------------------------------------------------------------------
(* Reference rewriter for a start page: convert_start_page_dependencies    *)

StartSentinels == {"END_FLOW", "START_PAGE"}

TargetStartSource(t, pages_map) ==
  IF Last(t) \in StartSentinels THEN Ok(<<Last(t)>>) ELSE Lookup(pages_map, t, t)

TargetStartDestination(t, pages_map, flow_id) ==
  IF t \in {<<x>> : x \in StartSentinels}
  THEN Ok(flow_id \o <<"pages">> \o t)
  ELSE Lookup(pages_map, t, t)

TargetStart(t, m) ==
  IF m.direction = "source" THEN TargetStartSource(t, m.pages)
  ELSE TargetStartDestination(t, m.pages, m.flow_id)

RewriteStartTarget(r, m) ==
  IF r.raised \/ r.val.target_page = Empty THEN r
  ELSE SetTarget(r.val, TargetStart(r.val.target_page, m))

\* a start rewriter that translates the target page only
RewriteStartRouteTargetOnly(tr, m) == RewriteStartTarget(Ok(tr), m)

RewriteStartRoute(tr, m) == RewriteTrigger(RewriteStartTarget(Ok(tr), m), m)

\* for tr in page_mod.transition_routes: ..., with the index maps mr
RewriteStartRoutes(page_mod, mr) ==
  IF mr.raised THEN Fail(page_mod, mr.key)
  ELSE SetTransitionRoutes(
         page_mod,
         ForEach(page_mod.transition_routes,
                 [i \in DOMAIN page_mod.transition_routes |->
                    RewriteStartRoute(page_mod.transition_routes[i], mr.val)]))

\* the body of convert_start_page_dependencies on page_mod
ConvertStartPage(page_mod, s, agent_id, agent_type, flow) ==
  IF agent_type \notin {"source", "destination"} THEN Ok(page_mod)
  ELSE RewriteStartRoutes(page_mod, IndexMaps(s, agent_id, agent_type, flow))

ConvertStartCopy(c, s, agent_id, agent_type, flow) ==
  Outcome(c, ConvertStartPage(c.heap[c.ref], s, agent_id, agent_type, flow))

convert_start_page_dependencies(h, s, agent_id, r, agent_type, flow) ==
  ConvertStartCopy(deepcopy(h, r), s, agent_id, agent_type, flow)

----------------------------------------------------------------------------
(* Dependency extractor: get_page_dependencies                             *)

Indices(s) == DOMAIN s

\* resources['webhooks'] of one page
PageWebhooks(page) ==
  (IF page.entry_fulfillment.webhook # Empty THEN {page.entry_fulfillment.webhook} ELSE {})
  \cup {page.transition_routes[i].trigger_fulfillment.webhook :
          i \in {j \in Indices(page.transition_routes) :
                   /\ page.transition_routes[j].intent = Empty
                   /\ page.transition_routes[j].condition # ""
                   /\ page.transition_routes[j].trigger_fulfillment.webhook # Empty}}

\* resources['intents'] contributed by the page's own transition routes
PageRouteIntents(page) ==
  {page.transition_routes[i].intent :
     i \in {j \in Indices(page.transition_routes) : page.transition_routes[j].intent # Empty}}

\* resources['entities'] of one page
PageEntities(page) ==
  {page.form.parameters[i].entity_type :
     i \in {j \in Indices(page.form.parameters) :
              ~ContainsSys(page.form.parameters[j].entity_type)}}

\* resources['route_groups'] of one page
PageRouteGroups(page) ==
  {page.transition_route_groups[i] : i \in Indices(page.transition_route_groups)}

\* resources['intents'] contributed by the route groups attached to the page:
\* tr.intent of every route of every listed route group whose name is attached
RouteGroupIntents(page, route_groups) ==
  UNION {{route_groups[g].transition_routes[i].intent :
            i \in Indices(route_groups[g].transition_routes)} :
         g \in {k \in Indices(route_groups) : route_groups[k].name \in PageRouteGroups(page)}}

\* an extractor that would look the route groups up in every flow of the agent
get_page_dependencies_every_flow(s, obj_list) ==
  IF obj_list = <<>> THEN Fail(Empty, <<"list index out of range">>)
  ELSE LET route_groups == s[AgentOf(obj_list[1].name)].route_groups
       IN  Ok([webhooks |-> UNION {PageWebhooks(obj_list[i]) : i \in Indices(obj_list)},
               intents |-> UNION {PageRouteIntents(obj_list[i])
                                    \cup RouteGroupIntents(obj_list[i], route_groups) :
                                  i \in Indices(obj_list)},
               entities |-> UNION {PageEntities(obj_list[i]) : i \in Indices(obj_list)},
               route_groups |-> UNION {PageRouteGroups(obj_list[i]) : i \in Indices(obj_list)}])

get_page_dependencies(s, obj_list) ==
  IF obj_list = <<>> THEN Fail(Empty, <<"list index out of range">>)
  ELSE LET flow_id == Prefix(obj_list[1].name, 8)
           route_groups == list_transition_route_groups(s, flow_id)
       IN  Ok([webhooks |-> UNION {PageWebhooks(obj_list[i]) : i \in Indices(obj_list)},
               intents |-> UNION {PageRouteIntents(obj_list[i])
                                    \cup RouteGroupIntents(obj_list[i], route_groups) :
                                  i \in Indices(obj_list)},
               entities |-> UNION {PageEntities(obj_list[i]) : i \in Indices(obj_list)},
               route_groups |-> UNION {PageRouteGroups(obj_list[i]) : i \in Indices(obj_list)}])

----------------------------------------------------------------------------
(* Two agents.  AgentA is the source; AgentB is the destination, whose     *)
(* identifiers are unrelated to A's and whose listings come in another     *)
(* order.                                                                  *)

Res(name, display_name) == [name |-> name, display_name |-> display_name]

Route(intent, condition, webhook, target_page) ==
  [intent |-> intent, condition |-> condition,
   trigger_fulfillment |-> [webhook |-> webhook], target_page |-> target_page]

Handler(target_page, webhook) ==
  [target_page |-> target_page, trigger_fulfillment |-> [webhook |-> webhook]]

Param(entity_type, webhook, handlers) ==
  [entity_type |-> entity_type,
   fill_behavior |-> [initial_prompt_fulfillment |-> [webhook |-> webhook],
                      reprompt_event_handlers |-> handlers]]

Page(name, display_name, webhook, routes, handlers, params, groups) ==
  [name |-> name, display_name |-> display_name,
   entry_fulfillment |-> [webhook |-> webhook],
   transition_routes |-> routes, event_handlers |-> handlers,
   form |-> [parameters |-> params], transition_route_groups |-> groups]

EmptyPage(name, display_name) == Page(name, display_name, Empty, <<>>, <<>>, <<>>, <<>>)

IntentObj(name, display_name, entity_types) ==
  [name |-> name, display_name |-> display_name,
   parameters |-> [i \in DOMAIN entity_types |-> [entity_type |-> entity_types[i]]]]

RouteGroupObj(name, display_name, routes) ==
  [name |-> name, display_name |-> display_name, transition_routes |-> routes]

\* identifiers of agent A
i1 == AgentA \o <<"intents", "i1">>
i2 == AgentA \o <<"intents", "i2">>
iX == AgentA \o <<"intents", "i9">>
e1 == AgentA \o <<"entityTypes", "e1">>
e2 == AgentA \o <<"entityTypes", "e2">>
eX == AgentA \o <<"entityTypes", "e9">>
w1 == AgentA \o <<"webhooks", "w1">>
w2 == AgentA \o <<"webhooks", "w2">>
wX == AgentA \o <<"webhooks", "w9">>
p1 == FlowA \o <<"pages", "p1">>
p2 == FlowA \o <<"pages", "p2">>
pX == FlowA \o <<"pages", "p9">>
g1 == FlowA \o <<"transitionRouteGroups", "g1">>
g2 == FlowA \o <<"transitionRouteGroups", "g2">>
g3 == FlowA \o <<"transitionRouteGroups", "g3">>
g4 == FlowA \o <<"transitionRouteGroups", "g4">>
gX == FlowA \o <<"transitionRouteGroups", "g9">>

SentinelPath(flow_id, token) == flow_id \o <<"pages", token>>

\* identifiers of agent B
BId(category, leaf) == AgentB \o <<category, leaf>>
BFlowId(category, leaf) == FlowB \o <<category, leaf>>

WorldA ==
  [flows |-> <<Res(FlowA, DefaultStartFlow)>>,
   intents |-> <<IntentObj(i1, <<"Order">>, <<e1, SysNumber>>),
                 IntentObj(i2, <<"Cancel">>, <<>>)>>,
   entity_types |-> <<Res(e1, <<"Size">>), Res(e2, <<"Topping">>)>>,
   webhooks |-> <<Res(w1, <<"Hook">>), Res(w2, <<"Audit">>)>>,
   pages |-> <<EmptyPage(p1, <<"Menu">>), EmptyPage(p2, <<"Pay">>)>>,
   route_groups |->
     <<RouteGroupObj(g1, <<"Common">>,
                     <<Route(i1, "", w1, p1),
                       Route(Empty, "c", Empty, SentinelPath(FlowA, "END_FLOW"))>>),
       RouteGroupObj(g2, <<"Extra">>, <<Route(i2, "", Empty, p2)>>),
       RouteGroupObj(g3, <<"Exit">>,
                     <<Route(i2, "", w2, SentinelPath(FlowA, "END_FLOW")),
                       Route(i1, "", Empty, p1)>>),
       RouteGroupObj(g4, <<"Bye">>,
                     <<Route(i1, "", Empty, SentinelPath(FlowA, "END_SESSION"))>>)>>]

\* B with a resource for every display name of A
MirrorB ==
  [flows |-> <<Res(FlowB, DefaultStartFlow)>>,
   intents |-> <<IntentObj(BId("intents", "x2"), <<"Cancel">>, <<>>),
                 IntentObj(BId("intents", "x1"), <<"Order">>,
                           <<BId("entityTypes", "y1"), SysNumber>>)>>,
   entity_types |-> <<Res(BId("entityTypes", "y2"), <<"Topping">>),
                      Res(BId("entityTypes", "y1"), <<"Size">>)>>,
   webhooks |-> <<Res(BId("webhooks", "z2"), <<"Audit">>),
                  Res(BId("webhooks", "z1"), <<"Hook">>)>>,
   pages |-> <<EmptyPage(BFlowId("pages", "q2"), <<"Pay">>),
               EmptyPage(BFlowId("pages", "q1"), <<"Menu">>)>>,
   route_groups |->
     <<RouteGroupObj(BFlowId("transitionRouteGroups", "h2"), <<"Extra">>, <<>>),
       RouteGroupObj(BFlowId("transitionRouteGroups", "h1"), <<"Common">>, <<>>),
       RouteGroupObj(BFlowId("transitionRouteGroups", "h3"), <<"Exit">>, <<>>),
       RouteGroupObj(BFlowId("transitionRouteGroups", "h4"), <<"Bye">>, <<>>)>>]

\* B lacking the second resource of every category
SparseB ==
  [flows |-> MirrorB.flows,
   intents |-> Tail(MirrorB.intents),
   entity_types |-> Tail(MirrorB.entity_types),
   webhooks |-> Tail(MirrorB.webhooks),
   pages |-> Tail(MirrorB.pages),
   route_groups |-> Tail(MirrorB.route_groups)]

\* B with its flow and the page shells only
FreshB ==
  [flows |-> MirrorB.flows, intents |-> <<>>, entity_types |-> <<>>, webhooks |-> <<>>,
   pages |-> MirrorB.pages, route_groups |-> <<>>]

----------------------------------------------------------------------------
(* Inputs of the rewriters and of the extractor                            *)

Targets ==
  {Empty, p1, p2, pX} \cup
  {SentinelPath(FlowA, t) : t \in {"END_FLOW", "END_SESSION", "CURRENT_PAGE", "START_PAGE"}}

Routes ==
  {Route(i, IF i = Empty THEN "c" ELSE "", w, p1) :
     i \in {Empty, i1, i2, iX}, w \in {Empty, w1, wX}}
  \cup {Route(i1, "", Empty, t) : t \in Targets}
  \cup {Route(i2, "c", w2, SentinelPath(FlowA, "END_SESSION")),
        Route(Empty, "c", w2, p2)}

Handlers ==
  {Handler(t, Empty) : t \in Targets \ {Empty}}
  \cup {Handler(p1, w) : w \in {w1, w2, wX}}
  \cup {Handler(Empty, w1)}

RepromptHandlers ==
  {Handler(SentinelPath(FlowA, "END_FLOW"), Empty),
   Handler(SentinelPath(FlowA, "CURRENT_PAGE"), w1),
   Handler(p2, Empty), Handler(pX, w1), Handler(p1, wX)}

PlainParams ==
  {Param(e, Empty, <<>>) : e \in {e1, e2, eX, SysNumber}}
  \cup {Param(e1, w, <<>>) : w \in {w1, w2, wX}}

RepromptParams == {Param(SysNumber, Empty, hs) : hs \in SeqsUpTo(RepromptHandlers, MaxLen)}

\* a page with every part populated
FullPage(name, display_name, tr, group) ==
  Page(name, display_name, w1, <<tr>>,
       <<Handler(SentinelPath(FlowA, "END_SESSION"), w2)>>,
       <<Param(e1, w1, <<Handler(p2, w1)>>)>>, <<group>>)

InputPages ==
  {Page(p1, <<"Menu">>, Empty, rs, <<>>, <<>>, <<>>) : rs \in SeqsUpTo(Routes, MaxLen)}
  \cup {Page(p1, <<"Menu">>, Empty, <<>>, hs, <<>>, <<>>) : hs \in SeqsUpTo(Handlers, MaxLen)}
  \cup {Page(p1, <<"Menu">>, Empty, <<>>, <<>>, ps, <<>>) : ps \in SeqsUpTo(PlainParams, MaxLen)}
  \cup {Page(p1, <<"Menu">>, Empty, <<>>, <<>>, <<p>>, <<>>) : p \in RepromptParams}
  \cup {Page(p1, <<"Menu">>, Empty, <<>>, <<>>, <<>>, gs) : gs \in SeqsUpTo({g1, g2, gX}, MaxLen)}
  \cup {Page(p2, <<"Pay">>, w, <<>>, <<>>, <<>>, <<>>) : w \in {Empty, w1, w2, wX}}
  \cup {FullPage(p2, <<"Pay">>, tr, g) : tr \in {Route(i1, "", w1, p1), Route(iX, "", w1, p1)},
                                          g \in {g1, gX}}

ListPages ==
  {EmptyPage(p1, <<"Menu">>),
   FullPage(p2, <<"Pay">>, Route(i1, "", w1, p1), g1),
   FullPage(p1, <<"Menu">>, Route(i2, "", w2, p2), g2),
   FullPage(p1, <<"Menu">>, Route(i1, "", wX, p1), g1)}

InputPageLists ==
  {<<>>} \cup {<<p>> : p \in InputPages} \cup {<<p, q>> : p \in ListPages, q \in ListPages}

\* start pages: the routes vary, the other parts hold references of agent A
InputStartPages ==
  {Page(SentinelPath(FlowA, "START_PAGE"), <<"Start">>, w1, rs,
        <<Handler(p1, w1)>>, <<Param(e1, w2, <<>>)>>, <<g1>>) : rs \in SeqsUpTo(Routes, MaxLen)}

NoRet == [op |-> "none", raised |-> FALSE, key |-> Empty, ref |-> 0, val |-> Empty]

InitRewrite ==
  /\ svc \in {[a \in {AgentA, AgentB} |-> IF a = AgentA THEN WorldA ELSE b] :
                b \in {MirrorB, SparseB, FreshB}}
  /\ \/ /\ args = [kind |-> "pages", flow |-> DefaultStartFlow]
        /\ \E pages \in InputPageLists : heap = <<pages>>
     \/ /\ args = [kind |-> "start", flow |-> DefaultStartFlow]
        /\ \E start_page \in InputStartPages : heap = <<start_page>>
  /\ ret = NoRet
  /\ pc = "start"
  /\ calls = <<>>

\* the caller converts its pages against the source agent
ConvertPagesSource ==
  /\ pc = "start" /\ args.kind = "pages"
  /\ \E o \in {convert_page_dependencies(heap, svc, AgentA, 1, "source", args.flow)} :
       /\ heap' = o.heap
       /\ ret' = [op |-> "convert_source", raised |-> o.raised, key |-> o.key, ref |-> o.ref,
                  val |-> Empty]
       /\ pc' = IF o.raised THEN "raised" ELSE "portable"
  /\ UNCHANGED <<svc, calls, args>>

\* the caller converts the portable pages it got back against the destination agent
ConvertPagesDestination ==
  /\ pc = "portable" /\ args.kind = "pages"
  /\ \E o \in {convert_page_dependencies(heap, svc, AgentB, ret.ref, "destination",
                                              args.flow)} :
       /\ heap' = o.heap
       /\ ret' = [op |-> "convert_destination", raised |-> o.raised, key |-> o.key, ref |-> o.ref,
                  val |-> Empty]
       /\ pc' = IF o.raised THEN "raised" ELSE "done"
  /\ UNCHANGED <<svc, calls, args>>

ConvertStartSource ==
  /\ pc = "start" /\ args.kind = "start"
  /\ \E o \in {convert_start_page_dependencies(heap, svc, AgentA, 1, "source", args.flow)} :
       /\ heap' = o.heap
       /\ ret' = [op |-> "convert_start_source", raised |-> o.raised, key |-> o.key, ref |-> o.ref,
                  val |-> Empty]
       /\ pc' = IF o.raised THEN "raised" ELSE "portable"
  /\ UNCHANGED <<svc, calls, args>>

ConvertStartDestination ==
  /\ pc = "portable" /\ args.kind = "start"
  /\ \E o \in {convert_start_page_dependencies(heap, svc, AgentB, ret.ref, "destination",
                                                    args.flow)} :
       /\ heap' = o.heap
       /\ ret' = [op |-> "convert_start_destination", raised |-> o.raised, key |-> o.key, ref |-> o.ref,
                  val |-> Empty]
       /\ pc' = IF o.raised THEN "raised" ELSE "done"
  /\ UNCHANGED <<svc, calls, args>>

\* the caller asks for the dependencies of its pages
GetPageDependencies ==
  /\ pc = "start" /\ args.kind = "pages"
  /\ \E o \in {get_page_dependencies(svc, heap[1])} :
       /\ ret' = [op |-> "get_page_dependencies", raised |-> o.raised, key |-> o.key,
                  ref |-> 0, val |-> o.val]
       /\ pc' = IF o.raised THEN "raised" ELSE "deps"
  /\ UNCHANGED <<svc, heap, calls, args>>

NextRewrite ==
  \/ ConvertPagesSource
  \/ ConvertPagesDestination
  \/ ConvertStartSource
  \/ ConvertStartDestination
  \/ GetPageDependencies

SpecRewrite == InitRewrite /\ [][NextRewrite]_vars

----------------------------------------------------------------------------
(* The agent-management collaborator (self.dfcx): creation calls.          *)
(* The service refuses a resource whose display name its parent already    *)
(* has, and may fail a creation for another reason (faults); otherwise it  *)
(* stores the resource under an identifier of its own.                     *)

\* the identifier the service gives a new resource of that display name
NewId(category, display_name) == ReverseMap(MirrorB[category])[display_name]

Listing(s, category, parent) ==
  IF category \in {"pages", "route_groups"}
  THEN SelectSeq(s[AgentOf(parent)][category], LAMBDA x : IsUnder(x.name, parent))
  ELSE s[parent][category]

create_resource(s, category, parent, obj, faults) ==
  IF \/ obj.display_name \in faults
     \/ \E i \in DOMAIN Listing(s, category, parent) :
          Listing(s, category, parent)[i].display_name = obj.display_name
  THEN [svc |-> s, ok |-> FALSE]
  ELSE [svc |-> [s EXCEPT ![AgentOf(parent)][category] =
                            Append(@, [obj EXCEPT !.name = NewId(category, obj.display_name)])],
        ok |-> TRUE]

create_webhook(s, agent_id, obj, faults) == create_resource(s, "webhooks", agent_id, obj, faults)
create_entity_type(s, agent_id, obj, faults) ==
  create_resource(s, "entity_types", agent_id, obj, faults)
create_intent(s, agent_id, obj, faults) == create_resource(s, "intents", agent_id, obj, faults)
create_transition_route_group(s, flow_id, obj, faults) ==
  create_resource(s, "route_groups", flow_id, obj, faults)

\* self.dfcx.create_page(flow_id, display_name=...): a page with nothing but its name
create_page(s, flow_id, display_name, faults) ==
  create_resource(s, "pages", flow_id, EmptyPage(Empty, display_name), faults)

\* self.dfcx.get_entity_type(entity_id)
get_entity_type(s, entity_id) ==
  LET list == list_entity_types(s, AgentOf(entity_id))
  IN  list[CHOOSE i \in DOMAIN list : list[i].name = entity_id]

\* self.dfcx.get_intent(intent_id)
get_intent(s, intent_id) ==
  LET list == list_intents(s, AgentOf(intent_id))
  IN  list[CHOOSE i \in DOMAIN list : list[i].name = intent_id]

----------------------------------------------------------------------------
(* Agent-to-agent copy: copy_paste_agent_resources, copy_intent_to_agent   *)
(*                                                                         *)
(* A run is followed through its state st: the service, the collaborator   *)
(* calls made so far, the objects fetched (resource_obj_dict), the objects *)
(* its loops have worked on, as the loops left them, and the KeyError that *)
(* ended it, if any.                                                       *)

Call(op, parent, obj, ok) == [op |-> op, parent |-> parent, obj |-> obj, ok |-> ok]

StartRun(s) ==
  [svc |-> s, calls |-> <<>>, raised |-> FALSE, key |-> Empty, held |-> <<>>,
   objs |-> [entities |-> <<>>, intents |-> <<>>, webhooks |-> <<>>, route_groups |-> <<>>]]

Raise(st, k) == [st EXCEPT !.raised = TRUE, !.key = k]

\* the object a loop iteration has worked on, in the state the iteration left it
Hold(st, obj) == [st EXCEPT !.held = Append(@, obj)]

\* the listing calls behind the statements of one step
Listed(st, ops) == [st EXCEPT !.calls = @ \o ops]

\* try: create(...)  except: raise  -- a guard that lets the failure through
TryCreateReraise(st, op, parent, obj, c) ==
  [st EXCEPT !.svc = c.svc, !.calls = Append(@, Call(op, parent, obj, c.ok)),
             !.raised = ~c.ok, !.key = IF c.ok THEN Empty ELSE obj.display_name]

\* the listing of the service that a creation call adds to
ListingOf ==
  [create_webhook |-> "webhooks", create_entity_type |-> "entity_types",
   create_intent |-> "intents", create_transition_route_group |-> "route_groups",
   create_page |-> "pages"]

\* try: create(...)  except: update(...)  -- a refused resource overwrites its namesake
TryCreateUpdating(st, op, parent, obj, c) ==
  LET old == c.svc[AgentOf(parent)][ListingOf[op]]
  IN [st EXCEPT !.svc = [c.svc EXCEPT ![AgentOf(parent)][ListingOf[op]] =
                           IF c.ok THEN old
                           ELSE [i \in DOMAIN old |->
                                   IF old[i].display_name = obj.display_name
                                   THEN [obj EXCEPT !.name = old[i].name] ELSE old[i]]],
                !.calls = Append(@, Call(op, parent, obj, c.ok))]

\* try: create(...)  except Exception: log, pass
TryCreate(st, op, parent, obj, c) ==
  [st EXCEPT !.svc = c.svc, !.calls = Append(@, Call(op, parent, obj, c.ok))]

Create(op, s, parent, obj, faults) ==
  CASE op = "create_webhook" -> create_webhook(s, parent, obj, faults)
    [] op = "create_entity_type" -> create_entity_type(s, parent, obj, faults)
    [] op = "create_intent" -> create_intent(s, parent, obj, faults)
    [] op = "create_transition_route_group" ->
         create_transition_route_group(s, parent, obj, faults)

\* an intents loop without its delay
Unpaced(st, op) == st

\* time.sleep(1), at the head of each iteration of the intents loop
Paced(st, op) ==
  IF op = "create_intent" THEN Listed(st, <<Call("sleep", Empty, Empty, TRUE)>>) ELSE st

\* an iteration whose guard would cover the rewriting too: a lookup miss skips
\* the resource and the loop goes on
PasteOneGuarded(st, op, parent, out, faults) ==
  IF out.raised THEN Hold(st, out.val)
  ELSE TryCreate(Hold(st, out.val), op, parent, out.val,
                 Create(op, st.svc, parent, out.val, faults))

\* one iteration of a PASTE loop: out is the object after its rewriting, or
\* the KeyError the rewriting raised
PasteOne(st, op, parent, out, faults) ==
  IF out.raised THEN Raise(Hold(st, out.val), out.key)
  ELSE TryCreate(Hold(st, out.val), op, parent, out.val,
                 Create(op, st.svc, parent, out.val, faults))

\* a PASTE loop
RECURSIVE PasteEach(_, _, _, _, _)
PasteEach(st, op, parent, outs, faults) ==
  IF st.raised \/ outs = <<>> THEN st
  ELSE PasteEach(PasteOne(Paced(st, op), op, parent, Head(outs), faults),
                 op, parent, Tail(outs), faults)

\* destination_map[source_map[k]]
TwoHop(source_map, destination_map, k) ==
  IF k \in DOMAIN source_map THEN Lookup(destination_map, source_map[k], Empty)
  ELSE Fail(Empty, k)

\* a parameter passed on with the source's entity type
RewriteIntentParamUntranslated(param, source_entities_map, destination_entities_map) ==
  Ok(param)

\* one parameter of an intent
RewriteIntentParam(param, source_entities_map, destination_entities_map) ==
  IF ContainsSys(param.entity_type) THEN Ok(param)
  ELSE SetEntityType(param,
                     TwoHop(source_entities_map, destination_entities_map, param.entity_type))

SetIntentParameters(intent, r) == [r EXCEPT !.val = [intent EXCEPT !.parameters = r.val]]

\* for param in intent.parameters: ...
RewriteIntent(intent, source_entities_map, destination_entities_map) ==
  SetIntentParameters(
    intent,
    ForEach(intent.parameters,
            [i \in DOMAIN intent.parameters |->
               RewriteIntentParam(intent.parameters[i], source_entities_map,
                                  destination_entities_map)]))

\* the index maps of the route-group step, given destination_flows[destination_flow]
GroupMaps(s, source_agent, destination_agent, source_flow, f) ==
  IF f.raised THEN Fail(Empty, f.key)
  ELSE Ok([source_intents |-> get_intents_map(s, source_agent, FALSE),
           source_webhooks |-> get_webhooks_map(s, source_agent, FALSE),
           source_pages |-> get_pages_map(s, source_flow, FALSE),
           destination_intents |-> get_intents_map(s, destination_agent, TRUE),
           destination_webhooks |-> get_webhooks_map(s, destination_agent, TRUE),
           destination_pages |-> get_pages_map(s, f.val, TRUE),
           flow_id |-> f.val])

\* tr.intent, whether or not the route has one
RewriteGroupIntent(r, m) ==
  IF r.raised THEN r
  ELSE SetIntent(r.val, TwoHop(m.source_intents, m.destination_intents, r.val.intent))

RewriteGroupWebhook(r, m) ==
  IF r.raised \/ r.val.trigger_fulfillment.webhook = Empty THEN r
  ELSE SetTriggerWebhook(r.val, TwoHop(m.source_webhooks, m.destination_webhooks,
                                       r.val.trigger_fulfillment.webhook))

RewriteGroupTarget(r, m) ==
  IF r.raised \/ r.val.target_page = Empty THEN r
  ELSE IF Last(r.val.target_page) = "END_FLOW"
       THEN Ok([r.val EXCEPT !.target_page = m.flow_id \o <<"pages", "END_FLOW">>])
       ELSE SetTarget(r.val, TwoHop(m.source_pages, m.destination_pages, r.val.target_page))

\* one transition route of a route group: intent, webhook, target page
RewriteGroupRoute(tr, m) ==
  RewriteGroupTarget(RewriteGroupWebhook(RewriteGroupIntent(Ok(tr), m), m), m)

\* for tr in rg.transition_routes: ...
RewriteGroup(rg, m) ==
  SetTransitionRoutes(
    rg,
    ForEach(rg.transition_routes,
            [i \in DOMAIN rg.transition_routes |-> RewriteGroupRoute(rg.transition_routes[i], m)]))

\* every listed resource, selected or not
SelectedAll(list, ids) == list

\* the listed resources whose name is in the selection
Selected(list, ids) == SelectSeq(list, LAMBDA x : x.name \in ids)

CopyEntities(st, resource_dict, source_agent, skip_list) ==
  IF "entities" \in skip_list THEN st
  ELSE [Listed(st, <<Call("list_entity_types", source_agent, Empty, TRUE)>>)
          EXCEPT !.objs.entities =
                   Selected(list_entity_types(st.svc, source_agent), resource_dict.entities)]

CopyIntents(st, resource_dict, source_agent, skip_list) ==
  IF "intents" \in skip_list THEN st
  ELSE [Listed(st, <<Call("list_intents", source_agent, Empty, TRUE)>>)
          EXCEPT !.objs.intents =
                   Selected(list_intents(st.svc, source_agent), resource_dict.intents)]

CopyWebhooks(st, resource_dict, source_agent, skip_list) ==
  IF "webhooks" \in skip_list THEN st
  ELSE [Listed(st, <<Call("list_webhooks", source_agent, Empty, TRUE)>>)
          EXCEPT !.objs.webhooks =
                   Selected(list_webhooks(st.svc, source_agent), resource_dict.webhooks)]

\* the route groups of source_flows_map['Default Start Flow'], f being that lookup
CopyRouteGroupsOf(st, resource_dict, f) ==
  IF f.raised THEN Raise(st, f.key)
  ELSE [Listed(st, <<Call("list_transition_route_groups", f.val, Empty, TRUE)>>)
          EXCEPT !.objs.route_groups =
                   Selected(list_transition_route_groups(st.svc, f.val),
                            resource_dict.route_groups)]

CopyRouteGroups(st, resource_dict, source_agent, skip_list) ==
  IF "route_groups" \in skip_list THEN st
  ELSE CopyRouteGroupsOf(Listed(st, <<Call("list_flows", source_agent, Empty, TRUE)>>),
                         resource_dict,
                         FlowId(st.svc, source_agent, DefaultStartFlow))

PasteWebhooks(st, destination_agent, faults) ==
  PasteEach(st, "create_webhook", destination_agent,
            [i \in DOMAIN st.objs.webhooks |-> Ok(st.objs.webhooks[i])], faults)

PasteEntities(st, destination_agent, faults) ==
  PasteEach(st, "create_entity_type", destination_agent,
            [i \in DOMAIN st.objs.entities |-> Ok(st.objs.entities[i])], faults)

PasteIntents(st, source_agent, destination_agent, faults) ==
  IF st.raised \/ st.objs.intents = <<>> THEN st
  ELSE PasteEach(Listed(st, <<Call("list_entity_types", source_agent, Empty, TRUE),
                              Call("list_entity_types", destination_agent, Empty, TRUE)>>),
                 "create_intent", destination_agent,
                 [i \in DOMAIN st.objs.intents |->
                    RewriteIntent(st.objs.intents[i],
                                  get_entities_map(st.svc, source_agent, FALSE),
                                  get_entities_map(st.svc, destination_agent, TRUE))],
                 faults)

\* the loop over the route groups, with the index maps mr (or the KeyError building them)
PasteRouteGroupsWith(st, mr, faults) ==
  IF mr.raised THEN Raise(st, mr.key)
  ELSE PasteEach(st, "create_transition_route_group", mr.val.flow_id,
                 [i \in DOMAIN st.objs.route_groups |->
                    RewriteGroup(st.objs.route_groups[i], mr.val)],
                 faults)

PasteRouteGroups(st, source_agent, destination_agent, destination_flow, faults) ==
  IF st.raised \/ st.objs.route_groups = <<>> THEN st
  ELSE PasteRouteGroupsWith(
         Listed(st, <<Call("list_intents", source_agent, Empty, TRUE),
                      Call("list_webhooks", source_agent, Empty, TRUE),
                      Call("list_pages", FlowId(st.svc, source_agent, DefaultStartFlow).val,
                           Empty, TRUE),
                      Call("list_flows", destination_agent, Empty, TRUE),
                      Call("list_intents", destination_agent, Empty, TRUE),
                      Call("list_webhooks", destination_agent, Empty, TRUE)>>),
         GroupMaps(st.svc, source_agent, destination_agent,
                   FlowId(st.svc, source_agent, DefaultStartFlow).val,
                   FlowId(st.svc, destination_agent, destination_flow)),
         faults)

\* a PASTE phase that takes the intents before the entity types
copy_paste_intents_first(s, resource_dict, source_agent, destination_agent, destination_flow, skip_list, faults) ==
  PasteRouteGroups(
    PasteEntities(
      PasteIntents(
        PasteWebhooks(
          CopyRouteGroups(
            CopyWebhooks(
              CopyIntents(
                CopyEntities(StartRun(s), resource_dict, source_agent, skip_list),
                resource_dict, source_agent, skip_list),
              resource_dict, source_agent, skip_list),
            resource_dict, source_agent, skip_list),
          destination_agent, faults),
        source_agent, destination_agent, faults),
      destination_agent, faults),
    source_agent, destination_agent, destination_flow, faults)

copy_paste_agent_resources(s, resource_dict, source_agent, destination_agent, destination_flow, skip_list, faults) ==
  PasteRouteGroups(
    PasteIntents(
      PasteEntities(
        PasteWebhooks(
          CopyRouteGroups(
            CopyWebhooks(
              CopyIntents(
                CopyEntities(StartRun(s), resource_dict, source_agent, skip_list),
                resource_dict, source_agent, skip_list),
              resource_dict, source_agent, skip_list),
            resource_dict, source_agent, skip_list),
          destination_agent, faults),
        destination_agent, faults),
      source_agent, destination_agent, faults),
    source_agent, destination_agent, destination_flow, faults)

\* copy_intent_to_agent from intent_id = intents_map[intent_display_name] on
CopyIntentOf(st, i, source_agent, destination_agent, faults) ==
  IF i.raised THEN Raise(st, i.key)
  ELSE PasteOne([Listed(st, <<Call("get_intent", i.val, Empty, TRUE),
                              Call("list_entity_types", source_agent, Empty, TRUE),
                              Call("list_entity_types", destination_agent, Empty, TRUE)>>)
                   EXCEPT !.objs.intents = <<get_intent(st.svc, i.val)>>],
                "create_intent", destination_agent,
                RewriteIntent(get_intent(st.svc, i.val),
                              get_entities_map(st.svc, source_agent, FALSE),
                              get_entities_map(st.svc, destination_agent, TRUE)),
                faults)

copy_intent_to_agent(s, intent_display_name, source_agent, destination_agent, faults) ==
  CopyIntentOf(Listed(StartRun(s), <<Call("list_intents", source_agent, Empty, TRUE)>>),
               Lookup(get_intents_map(s, source_agent, TRUE), intent_display_name, Empty),
               source_agent, destination_agent, faults)

\* copy_entity_type_to_agent from entity_id = entity_map[entity_type_display_name] on
CopyEntityTypeOf(st, e, destination_agent, faults) ==
  IF e.raised THEN Raise(st, e.key)
  ELSE PasteOne([Listed(st, <<Call("get_entity_type", e.val, Empty, TRUE)>>)
                   EXCEPT !.objs.entities = <<get_entity_type(st.svc, e.val)>>],
                "create_entity_type", destination_agent,
                Ok(get_entity_type(st.svc, e.val)), faults)

copy_entity_type_to_agent(s, entity_type_display_name, source_agent, destination_agent, faults) ==
  CopyEntityTypeOf(Listed(StartRun(s), <<Call("list_entity_types", source_agent, Empty, TRUE)>>),
                   Lookup(get_entities_map(s, source_agent, TRUE), entity_type_display_name,
                          Empty),
                   destination_agent, faults)

\* a loop that gives up at the first page that cannot be created
RECURSIVE ShellEachUntilFailure(_, _, _, _)
ShellEachUntilFailure(st, f, pages_list, faults) ==
  IF pages_list = <<>> \/ f.raised THEN st
  ELSE IF create_page(st.svc, f.val, Head(pages_list).display_name, faults).ok
       THEN ShellEachUntilFailure(
              TryCreate(st, "create_page", f.val, EmptyPage(Empty, Head(pages_list).display_name),
                        create_page(st.svc, f.val, Head(pages_list).display_name, faults)),
              f, Tail(pages_list), faults)
       ELSE TryCreate(st, "create_page", f.val, EmptyPage(Empty, Head(pages_list).display_name),
                      create_page(st.svc, f.val, Head(pages_list).display_name, faults))

\* an iteration whose flow lookup stands before the try: its KeyError leaves
\* the function
ShellOneLookupUnguarded(st, f, page, faults) ==
  IF st.raised THEN st
  ELSE IF f.raised THEN Raise(st, f.key)
  ELSE TryCreate(st, "create_page", f.val, EmptyPage(Empty, page.display_name),
                 create_page(st.svc, f.val, page.display_name, faults))

\* one iteration of create_page_shells: f is destination_flows[destination_flow],
\* evaluated inside the try, so that its KeyError is swallowed with the rest
ShellOne(st, f, page, faults) ==
  IF f.raised THEN st
  ELSE TryCreate(st, "create_page", f.val, EmptyPage(Empty, page.display_name),
                 create_page(st.svc, f.val, page.display_name, faults))

\* for page in pages_list: try ... except: continue
RECURSIVE ShellEach(_, _, _, _)
ShellEach(st, f, pages_list, faults) ==
  IF pages_list = <<>> THEN st
  ELSE ShellEach(ShellOne(st, f, Head(pages_list), faults), f, Tail(pages_list), faults)

create_page_shells(s, pages_list, destination_agent, destination_flow, faults) ==
  ShellEach(Listed(StartRun(s), <<Call("list_flows", destination_agent, Empty, TRUE)>>),
            FlowId(s, destination_agent, destination_flow), pages_list, faults)

\* a fetched object as the run left it
HeldAs(st, x) ==
  IF \E k \in DOMAIN st.held : st.held[k].name = x.name
  THEN st.held[CHOOSE k \in DOMAIN st.held : st.held[k].name = x.name]
  ELSE x

AllFetched(st) ==
  st.objs.webhooks \o st.objs.entities \o st.objs.intents \o st.objs.route_groups

\* the objects the collaborator returned to a run, as they are when the run ends
Fetched(st) == [i \in DOMAIN AllFetched(st) |-> HeldAs(st, AllFetched(st)[i])]

----------------------------------------------------------------------------
(* The copy operations at work: a bulk copy, run once and then once more   *)
(* with the same arguments, or the copy of one intent                      *)

Selections ==
  {[entities |-> e, intents |-> i, webhooks |-> w, route_groups |-> g] :
     e \in {{}, {e1}, {e1, e2}},
     i \in {{}, {i1}, {i1, i2}},
     w \in {{}, {w1, w2}},
     g \in {{}, {g1}, {g2}, {g3}, {g4}, {g2, g3}}}

SkipLists == {{}, {"route_groups"}, {"intents"}, {"entities", "webhooks"}}

\* display names whose creation the service fails for a reason other than a duplicate
FaultSets == {{}, {<<"Size">>}, {<<"Cancel">>}, {<<"Hook">>}, {<<"Extra">>}}

\* B with its flow only
BlankB == [FreshB EXCEPT !.pages = <<>>]

Worlds(Bs) == {[a \in {AgentA, AgentB} |-> IF a = AgentA THEN WorldA ELSE b] : b \in Bs}

\* the lists of pages whose shells are asked for
ShellLists == SeqsUpTo({EmptyPage(p1, <<"Menu">>), EmptyPage(p2, <<"Pay">>)}, MaxLen)

ShellFaultSets == {{}, {<<"Menu">>}, {<<"Pay">>}}

InitCopy ==
  /\ \/ /\ svc \in Worlds({FreshB, SparseB, MirrorB})
        /\ \/ \E resource_dict \in Selections, skip_list \in SkipLists, faults \in FaultSets,
                destination_flow \in {DefaultStartFlow, <<"Some Other Flow">>} :
                args = [kind |-> "bulk", resource_dict |-> resource_dict,
                        skip_list |-> skip_list, destination_flow |-> destination_flow,
                        faults |-> faults]
           \/ \E n \in {<<"Order">>, <<"Cancel">>, <<"Unknown">>}, faults \in FaultSets :
                args = [kind |-> "intent", intent_display_name |-> n, faults |-> faults]
           \/ \E n \in {<<"Size">>, <<"Topping">>, <<"Unknown">>}, faults \in FaultSets :
                args = [kind |-> "entity", entity_type_display_name |-> n, faults |-> faults]
     \/ /\ svc \in Worlds({BlankB, SparseB, FreshB})
        /\ \E pages_list \in ShellLists, faults \in ShellFaultSets,
              destination_flow \in {DefaultStartFlow, <<"Some Other Flow">>} :
              args = [kind |-> "shells", pages_list |-> pages_list,
                      destination_flow |-> destination_flow, faults |-> faults]
  /\ heap = <<>>
  /\ ret = NoRet
  /\ pc = "start"
  /\ calls = <<>>

\* copy_paste_agent_resources, a first and a second time
CopyPasteAgentResources ==
  /\ pc \in {"start", "once"} /\ args.kind = "bulk"
  /\ \E st \in {copy_paste_agent_resources(svc, args.resource_dict, AgentA, AgentB,
                                           args.destination_flow, args.skip_list,
                                           args.faults)} :
       /\ svc' = st.svc
       /\ calls' = st.calls
       /\ heap' = Fetched(st)
       /\ ret' = [op |-> "copy_paste_agent_resources", raised |-> st.raised, key |-> st.key,
                  ref |-> 0, val |-> Empty]
  /\ pc' = IF pc = "start" THEN "once" ELSE "twice"
  /\ UNCHANGED args

CopyIntentToAgent ==
  /\ pc = "start" /\ args.kind = "intent"
  /\ \E st \in {copy_intent_to_agent(svc, args.intent_display_name, AgentA, AgentB,
                                     args.faults)} :
       /\ svc' = st.svc
       /\ calls' = st.calls
       /\ heap' = Fetched(st)
       /\ ret' = [op |-> "copy_intent_to_agent", raised |-> st.raised, key |-> st.key,
                  ref |-> 0, val |-> Empty]
  /\ pc' = "done"
  /\ UNCHANGED args

CopyEntityTypeToAgent ==
  /\ pc = "start" /\ args.kind = "entity"
  /\ \E st \in {copy_entity_type_to_agent(svc, args.entity_type_display_name, AgentA, AgentB,
                                          args.faults)} :
       /\ svc' = st.svc
       /\ calls' = st.calls
       /\ heap' = Fetched(st)
       /\ ret' = [op |-> "copy_entity_type_to_agent", raised |-> st.raised, key |-> st.key,
                  ref |-> 0, val |-> Empty]
  /\ pc' = "done"
  /\ UNCHANGED args

\* create_page_shells, a first and a second time
CreatePageShells ==
  /\ pc \in {"start", "once"} /\ args.kind = "shells"
  /\ \E st \in {create_page_shells(svc, args.pages_list, AgentB, args.destination_flow,
                                   args.faults)} :
       /\ svc' = st.svc
       /\ calls' = st.calls
       /\ ret' = [op |-> "create_page_shells", raised |-> st.raised, key |-> st.key,
                  ref |-> 0, val |-> Empty]
  /\ pc' = IF pc = "start" THEN "once" ELSE "twice"
  /\ UNCHANGED <<heap, args>>

NextCopy ==
  \/ CopyPasteAgentResources
  \/ CopyIntentToAgent
  \/ CopyEntityTypeToAgent
  \/ CreatePageShells

SpecCopy == InitCopy /\ [][NextCopy]_vars

----------------------------------------------------------------------------
(* The index builders on their own: one category of agent A holds a        *)
(* listing in which display names may repeat, and the caller asks for its  *)
(* map, forward or reverse.                                                *)

MaxListing == 3

IndexCategories == {"flows", "intents", "entity_types", "webhooks", "pages", "route_groups"}

\* the identifier of the resource leaf of a category
IndexId(category, leaf) ==
  CASE category = "flows" -> AgentA \o <<"flows", leaf>>
    [] category = "intents" -> AgentA \o <<"intents", leaf>>
    [] category = "entity_types" -> AgentA \o <<"entityTypes", leaf>>
    [] category = "webhooks" -> AgentA \o <<"webhooks", leaf>>
    [] category = "pages" -> FlowA \o <<"pages", leaf>>
    [] category = "route_groups" -> FlowA \o <<"transitionRouteGroups", leaf>>

\* listings of a category: identifiers are unique, display names need not be
IndexListings(category) ==
  {l \in SeqsUpTo({Res(IndexId(category, leaf), dn) :
                     leaf \in {"r1", "r2", "r3"}, dn \in {<<"Menu">>, <<"Pay">>}}, MaxListing) :
     \A a, b \in DOMAIN l : l[a].name = l[b].name => a = b}

NoResources ==
  [flows |-> <<>>, intents |-> <<>>, entity_types |-> <<>>, webhooks |-> <<>>,
   pages |-> <<>>, route_groups |-> <<>>]

InitIndex ==
  /\ \E category \in IndexCategories : \E l \in IndexListings(category) :
       /\ svc = [a \in {AgentA, AgentB} |->
                   IF a = AgentA THEN [NoResources EXCEPT ![category] = l] ELSE NoResources]
       /\ args = [kind |-> "index", category |-> category]
  /\ heap = <<>>
  /\ ret = NoRet
  /\ pc = "start"
  /\ calls = <<>>

\* what the caller of an index builder holds afterwards
Returned(op, reverse, map) ==
  /\ ret' = [op |-> op, raised |-> FALSE, key |-> Empty, ref |-> 0,
             val |-> [reverse |-> reverse, map |-> map]]
  /\ pc' = "done"
  /\ UNCHANGED <<svc, heap, calls, args>>

GetFlowsMap ==
  /\ pc = "start" /\ args.category = "flows"
  /\ \E reverse \in BOOLEAN :
       Returned("get_flows_map", reverse, get_flows_map(svc, AgentA, reverse))

GetIntentsMap ==
  /\ pc = "start" /\ args.category = "intents"
  /\ \E reverse \in BOOLEAN :
       Returned("get_intents_map", reverse, get_intents_map(svc, AgentA, reverse))

GetEntitiesMap ==
  /\ pc = "start" /\ args.category = "entity_types"
  /\ \E reverse \in BOOLEAN :
       Returned("get_entities_map", reverse, get_entities_map(svc, AgentA, reverse))

GetWebhooksMap ==
  /\ pc = "start" /\ args.category = "webhooks"
  /\ \E reverse \in BOOLEAN :
       Returned("get_webhooks_map", reverse, get_webhooks_map(svc, AgentA, reverse))

GetPagesMap ==
  /\ pc = "start" /\ args.category = "pages"
  /\ \E reverse \in BOOLEAN :
       Returned("get_pages_map", reverse, get_pages_map(svc, FlowA, reverse))

GetRouteGroupsMap ==
  /\ pc = "start" /\ args.category = "route_groups"
  /\ \E reverse \in BOOLEAN :
       Returned("get_route_groups_map", reverse, get_route_groups_map(svc, FlowA, reverse))

NextIndex ==
  \/ GetFlowsMap
  \/ GetIntentsMap
  \/ GetEntitiesMap
  \/ GetWebhooksMap
  \/ GetPagesMap
  \/ GetRouteGroupsMap

SpecIndex == InitIndex /\ [][NextIndex]_vars

----------------------------------------------------------------------------
(* The extractor on pages of two flows: agent A has a second flow with a   *)
(* page and a route group of its own, and the caller passes pages of       *)
(* either flow, in any order.                                              *)

FlowA2 == AgentA \o <<"flows", "f1">>
q1 == FlowA2 \o <<"pages", "q1">>
k1 == FlowA2 \o <<"transitionRouteGroups", "k1">>

WorldA2 ==
  [WorldA EXCEPT !.flows = Append(@, Res(FlowA2, <<"Checkout">>)),
                 !.pages = Append(@, EmptyPage(q1, <<"Cart">>)),
                 !.route_groups =
                   <<RouteGroupObj(g1, <<"Common">>, <<Route(i1, "", w1, p1)>>),
                     RouteGroupObj(k1, <<"Upsell">>, <<Route(i2, "", Empty, q1)>>)>>]

\* pages of the two flows, with route-group references of both flows
ExtractPages ==
  {Page(n, <<"Page">>, Empty, rs, <<>>, <<>>, gs) :
     n \in {p1, q1},
     rs \in {<<>>, <<Route(i1, "", Empty, p1)>>},
     gs \in {<<>>, <<g1>>, <<k1>>, <<g1, k1>>}}

\* the collaborator calls get_page_dependencies makes: none when obj_list[0]
\* fails, else the one listing of the route groups of the first page's flow
get_page_dependencies_calls(obj_list) ==
  IF obj_list = <<>> THEN <<>>
  ELSE <<Call("list_transition_route_groups", Prefix(obj_list[1].name, 8), Empty, TRUE)>>

InitExtract ==
  /\ svc = [a \in {AgentA, AgentB} |-> IF a = AgentA THEN WorldA2 ELSE MirrorB]
  /\ args = [kind |-> "extract"]
  /\ \E pages \in SeqsUpTo(ExtractPages, MaxLen) : heap = <<pages>>
  /\ ret = NoRet
  /\ pc = "start"
  /\ calls = <<>>

\* the caller asks for the dependencies of its pages
ExtractDependencies ==
  /\ pc = "start" /\ args.kind = "extract"
  /\ \E o \in {get_page_dependencies(svc, heap[1])} :
       /\ ret' = [op |-> "get_page_dependencies", raised |-> o.raised, key |-> o.key,
                  ref |-> 0, val |-> o.val]
       /\ pc' = IF o.raised THEN "raised" ELSE "deps"
  /\ calls' = get_page_dependencies_calls(heap[1])
  /\ UNCHANGED <<svc, heap, args>>

NextExtract == ExtractDependencies

SpecExtract == InitExtract /\ [][NextExtract]_vars

----------------------------------------------------------------------------
(* What the service holds, read directly from its listings                 *)

Range(s) == {s[i] : i \in DOMAIN s}

Names(list) == {r.name : r \in Range(list)}
DisplayNames(list) == {r.display_name : r \in Range(list)}

\* display name of the resource of the listing that has this identifier
DisplayNameOf(list, name) == (CHOOSE r \in Range(list) : r.name = name).display_name

\* identifier of the resource of the listing that has this display name
IdOf(list, display_name) == (CHOOSE r \in Range(list) : r.display_name = display_name).name

UniqueDisplayNames(list) ==
  \A i, j \in DOMAIN list : list[i].display_name = list[j].display_name => i = j

AllSentinels == {"END_FLOW", "END_SESSION", "CURRENT_PAGE", "START_PAGE"}

\* <<before, after>> for every target_page position of a list of pages
TargetPairs(pre, post) ==
  UNION {
    {<<pre[k].transition_routes[j].target_page, post[k].transition_routes[j].target_page>> :
       j \in DOMAIN pre[k].transition_routes}
    \cup {<<pre[k].event_handlers[j].target_page, post[k].event_handlers[j].target_page>> :
            j \in DOMAIN pre[k].event_handlers}
    \cup UNION {
           {<<pre[k].form.parameters[j].fill_behavior.reprompt_event_handlers[l].target_page,
              post[k].form.parameters[j].fill_behavior.reprompt_event_handlers[l].target_page>> :
              l \in DOMAIN pre[k].form.parameters[j].fill_behavior.reprompt_event_handlers} :
           j \in DOMAIN pre[k].form.parameters}
    : k \in DOMAIN pre}

SourceReturned == ret.op = "convert_source" /\ ~ret.raised
DestinationReturned == ret.op = "convert_destination" /\ ~ret.raised

----------------------------------------------------------------------------
(* C1  Round trip.  When the pages of agent A have been made portable and  *)
(* the portable pages are converted against an agent B that has one        *)
(* resource per display name of A, the conversion returns, and the result  *)
(* has, page by page, the same number of transition routes in the same     *)
(* order; each route's intent, trigger-fulfillment webhook and             *)
(* non-sentinel target page is B's identifier of the resource whose        *)
(* display name is the one the original reference had in A; the page's     *)
(* own name is B's identifier for its display name.                        *)

RouteRoundTrip(tr, out, A, B) ==
  /\ out.intent = IF tr.intent = Empty THEN Empty
                  ELSE IdOf(B.intents, DisplayNameOf(A.intents, tr.intent))
  /\ out.trigger_fulfillment.webhook =
       IF tr.trigger_fulfillment.webhook = Empty THEN Empty
       ELSE IdOf(B.webhooks, DisplayNameOf(A.webhooks, tr.trigger_fulfillment.webhook))
  /\ (tr.target_page # Empty /\ Last(tr.target_page) \notin PageSentinels)
       => out.target_page = IdOf(B.pages, DisplayNameOf(A.pages, tr.target_page))
  /\ tr.target_page = Empty => out.target_page = Empty

PageRoundTrip(P, out, A, B) ==
  /\ out.name = IdOf(B.pages, P.display_name)
  /\ out.display_name = P.display_name
  /\ Len(out.transition_routes) = Len(P.transition_routes)
  /\ \A j \in DOMAIN P.transition_routes :
       RouteRoundTrip(P.transition_routes[j], out.transition_routes[j], A, B)

C1_RoundTrip ==
  (ret.op = "convert_destination" /\ svc[AgentB] = MirrorB)
    => /\ ~ret.raised
       /\ Len(heap[ret.ref]) = Len(heap[1])
       /\ \A k \in DOMAIN heap[1] :
            PageRoundTrip(heap[1][k], heap[ret.ref][k], svc[AgentA], svc[AgentB])

C1_Witness ==
  /\ DestinationReturned /\ svc[AgentB] = MirrorB
  /\ Len(heap[1]) = 1
  /\ Len(heap[1][1].transition_routes) = 2
  /\ heap[1][1].transition_routes[1].intent = i2
  /\ heap[1][1].transition_routes[2].intent = i1
  /\ heap[1][1].transition_routes[2].trigger_fulfillment.webhook = w1
  /\ heap[1][1].transition_routes[2].target_page = p1

----------------------------------------------------------------------------
(* C2  Sentinel preservation in convert_page_dependencies.  Source         *)
(* direction: a target page of a transition route, event handler or        *)
(* reprompt handler whose last segment is END_FLOW, END_SESSION or         *)
(* CURRENT_PAGE comes out as that bare token, and the call never fails on  *)
(* looking such a target up.  Destination direction: a target page that    *)
(* is one of the bare tokens comes out as <destination flow>/pages/<TOKEN>.*)

C2_SentinelPreservation ==
  /\ SourceReturned =>
       \A pr \in TargetPairs(heap[1], heap[ret.ref]) :
         (pr[1] # Empty /\ Last(pr[1]) \in PageSentinels) => pr[2] = <<Last(pr[1])>>
  /\ (ret.op = "convert_source" /\ ret.raised) =>
       (ret.key = Empty \/ Last(ret.key) \notin PageSentinels)
  /\ DestinationReturned =>
       \A pr \in TargetPairs(heap[2], heap[ret.ref]) :
         (pr[1] # Empty /\ pr[1][1] \in PageSentinels) =>
           pr[2] = IdOf(svc[AgentB].flows, args.flow) \o <<"pages", pr[1][1]>>
  /\ (ret.op = "convert_destination" /\ ret.raised) =>
       (ret.key = Empty \/ ret.key[1] \notin PageSentinels)

C2_Witness ==
  /\ DestinationReturned
  /\ Len(heap[1]) = 1
  /\ Len(heap[1][1].form.parameters) = 1
  /\ Len(heap[1][1].form.parameters[1].fill_behavior.reprompt_event_handlers) = 2
  /\ heap[1][1].form.parameters[1].fill_behavior.reprompt_event_handlers[2].target_page
       = SentinelPath(FlowA, "CURRENT_PAGE")
  /\ heap[3][1].form.parameters[1].fill_behavior.reprompt_event_handlers[2].target_page
       = SentinelPath(FlowB, "CURRENT_PAGE")

----------------------------------------------------------------------------
(* The references of a list of pages, by category                          *)

PageHandlers(page) ==
  Range(page.event_handlers)
  \cup UNION {Range(page.form.parameters[j].fill_behavior.reprompt_event_handlers) :
                j \in DOMAIN page.form.parameters}

WebhookRefs(pages) ==
  UNION {{pages[k].entry_fulfillment.webhook}
         \cup {tr.trigger_fulfillment.webhook : tr \in Range(pages[k].transition_routes)}
         \cup {h.trigger_fulfillment.webhook : h \in PageHandlers(pages[k])}
         \cup {p.fill_behavior.initial_prompt_fulfillment.webhook :
                 p \in Range(pages[k].form.parameters)} :
         k \in DOMAIN pages} \ {Empty}

IntentRefs(pages) ==
  UNION {{tr.intent : tr \in Range(pages[k].transition_routes)} : k \in DOMAIN pages} \ {Empty}

TargetRefs(pages) ==
  UNION {{tr.target_page : tr \in Range(pages[k].transition_routes)}
         \cup {h.target_page : h \in PageHandlers(pages[k])} : k \in DOMAIN pages} \ {Empty}

EntityRefs(pages) ==
  {e \in UNION {{p.entity_type : p \in Range(pages[k].form.parameters)} : k \in DOMAIN pages} :
     ~ContainsSys(e)}

GroupRefs(pages) ==
  UNION {Range(pages[k].transition_route_groups) : k \in DOMAIN pages}

\* the references of pages of agent A that no resource of A's listings has
MissingSource(pages, A, flow_id) ==
  (WebhookRefs(pages) \ Names(A.webhooks))
  \cup (IntentRefs(pages) \ Names(A.intents))
  \cup ({t \in TargetRefs(pages) : Last(t) \notin PageSentinels}
          \ Names(SelectSeq(A.pages, LAMBDA p : IsUnder(p.name, flow_id))))
  \cup (EntityRefs(pages) \ Names(A.entity_types))
  \cup (GroupRefs(pages) \ Names(SelectSeq(A.route_groups, LAMBDA g : IsUnder(g.name, flow_id))))

\* the display names in portable pages that no resource of B's listings has
MissingDestination(pages, B, flow_id) ==
  (WebhookRefs(pages) \ DisplayNames(B.webhooks))
  \cup (IntentRefs(pages) \ DisplayNames(B.intents))
  \cup (({t \in TargetRefs(pages) : t[1] \notin PageSentinels}
           \cup {pages[k].display_name : k \in DOMAIN pages})
          \ DisplayNames(SelectSeq(B.pages, LAMBDA p : IsUnder(p.name, flow_id))))
  \cup (EntityRefs(pages) \ DisplayNames(B.entity_types))
  \cup (GroupRefs(pages)
          \ DisplayNames(SelectSeq(B.route_groups, LAMBDA g : IsUnder(g.name, flow_id))))

----------------------------------------------------------------------------
(* C4  A lookup miss is a hard failure.  convert_page_dependencies, in     *)
(* either direction, returns exactly when every reference it has to        *)
(* translate is in the agent's listings; otherwise it raises, and the      *)
(* error carries one of the missing keys.                                  *)

C4_LookupMissFails ==
  /\ ret.op = "convert_source" =>
       LET miss == MissingSource(heap[1], svc[AgentA], FlowA)
       IN  /\ ret.raised <=> miss # {}
           /\ ret.raised => ret.key \in miss
  /\ ret.op = "convert_destination" =>
       LET miss == MissingDestination(heap[2], svc[AgentB], FlowB)
       IN  /\ ret.raised <=> miss # {}
           /\ ret.raised => ret.key \in miss

C4_Witness ==
  /\ ret.op = "convert_source" /\ ret.raised /\ ret.key = iX
  /\ Len(heap[1]) = 1
  /\ Len(heap[1][1].transition_routes) = 2
  /\ heap[1][1].transition_routes[2].intent = iX

----------------------------------------------------------------------------
(* C10  Input immutability.  No operation changes an object that existed   *)
(* before it was called, whether it returns or raises; the object a        *)
(* rewriter returns is a new one.                                          *)

C10_InputImmutable ==
  [][/\ \A r \in DOMAIN heap : r \in DOMAIN heap' /\ heap'[r] = heap[r]
     /\ ret'.ref # 0 => ret'.ref \notin DOMAIN heap]_vars

\* the rewriter raised after it had rewritten part of its working copy
C10_Witness ==
  /\ ret.op = "convert_source" /\ ret.raised
  /\ Len(heap) = 2 /\ heap[2] # heap[1]

----------------------------------------------------------------------------
(* C3  (as claimed) Every translation leaves all four sentinels alone: a   *)
(* target whose last segment is END_FLOW, END_SESSION, CURRENT_PAGE or     *)
(* START_PAGE is never looked up in a page index, so no call fails with    *)
(* such a target as the missing key, and it comes out as the bare token.   *)

C3_AllSentinelsPassThrough ==
  /\ (ret.raised /\ ret.key # Empty) => Last(ret.key) \notin AllSentinels
  /\ SourceReturned =>
       \A pr \in TargetPairs(heap[1], heap[ret.ref]) :
         (pr[1] # Empty /\ Last(pr[1]) \in AllSentinels) => pr[2] = <<Last(pr[1])>>

----------------------------------------------------------------------------
(* C5  (as claimed) Dependency completeness: get_page_dependencies returns *)
(* exactly the entry-fulfillment webhooks plus the trigger-fulfillment     *)
(* webhooks of all transition routes, the non-system entity types, the     *)
(* attached route groups, and the intents referenced by the routes of the  *)
(* attached route groups; nothing else, no empty identifier.               *)

ClaimedDependencies(pages, A) ==
  [webhooks |->
     UNION {{pages[k].entry_fulfillment.webhook}
            \cup {tr.trigger_fulfillment.webhook : tr \in Range(pages[k].transition_routes)} :
            k \in DOMAIN pages} \ {Empty},
   entities |-> EntityRefs(pages),
   route_groups |-> GroupRefs(pages),
   intents |->
     UNION {{tr.intent : tr \in Range(g.transition_routes)} :
            g \in {x \in Range(A.route_groups) : x.name \in GroupRefs(pages)}} \ {Empty}]

C5_DependencyCompleteness ==
  (ret.op = "get_page_dependencies" /\ ~ret.raised)
    => ret.val = ClaimedDependencies(heap[1], svc[AgentA])

----------------------------------------------------------------------------
(* What a bulk copy was asked for, read from the source agent              *)

CreateCalls(op) == {k \in DOMAIN calls : calls[k].op = op}

BulkDone == ret.op = "copy_paste_agent_resources"

\* the resources of a source listing that the selection names, unless skipped
SelectedOf(list, category) ==
  IF category \in args.skip_list THEN {}
  ELSE {r \in Range(list) : r.name \in args.resource_dict[category]}

SelectedGroups == SelectedOf(svc[AgentA].route_groups, "route_groups")
SelectedIntents == SelectedOf(svc[AgentA].intents, "intents")
SelectedEntities == SelectedOf(svc[AgentA].entity_types, "entities")
SelectedWebhooks == SelectedOf(svc[AgentA].webhooks, "webhooks")

\* the number of creation attempts of that kind made for a resource
Attempts(op, r) == Cardinality({k \in CreateCalls(op) : calls[k].obj.name = r.name})

----------------------------------------------------------------------------
(* C6  (as claimed) Running copy_paste_agent_resources a second time with  *)
(* the same selection, source and destination, the service failing         *)
(* creations for duplicate display names only, leaves the destination as   *)
(* the first run left it and does not raise.                               *)

NoDuplicates(B) ==
  /\ UniqueDisplayNames(B.webhooks) /\ UniqueDisplayNames(B.entity_types)
  /\ UniqueDisplayNames(B.intents) /\ UniqueDisplayNames(B.route_groups)

----------------------------------------------------------------------------
(* C7  (as claimed) A failing creation never aborts a bulk copy.  Taken    *)
(* over the runs whose intents refer to entity types that the destination  *)
(* has or that are selected with them, and that copy no route group:       *)
(* every selected resource gets exactly one creation attempt and the       *)
(* operation returns without raising, whichever creations fail.            *)

\* the entity types the selected intents need are in the destination or selected
EntitiesProvided ==
  \A i \in SelectedIntents : \A j \in DOMAIN i.parameters :
    \/ ContainsSys(i.parameters[j].entity_type)
    \/ DisplayNameOf(svc[AgentA].entity_types, i.parameters[j].entity_type)
         \in DisplayNames(svc[AgentB].entity_types)
                \cup {e.display_name : e \in SelectedEntities}

C7_CreationFailureNeverAborts ==
  (BulkDone /\ EntitiesProvided /\ SelectedGroups = {})
    => /\ ~ret.raised
       /\ \A r \in SelectedWebhooks : Attempts("create_webhook", r) = 1
       /\ \A r \in SelectedEntities : Attempts("create_entity_type", r) = 1
       /\ \A r \in SelectedIntents : Attempts("create_intent", r) = 1

----------------------------------------------------------------------------
(* C8  (as claimed) Route-group rewriting.  Taken over the runs that reach *)
(* the route-group step and whose selected route groups refer only to      *)
(* intents, webhooks and pages the destination has under the same display  *)
(* name, or to END_FLOW, the destination flow existing: every selected     *)
(* route group is passed to                                                *)
(* create_transition_route_group, each of its routes, intent-triggered or  *)
(* condition-triggered, carrying the destination's intent, webhook and     *)
(* target page.                                                            *)

\* the destination's identifier for what a source identifier names
Translated(listA, listB, id) == IdOf(listB, DisplayNameOf(listA, id))

Translatable(listA, listB, id) ==
  id \in Names(listA) /\ DisplayNameOf(listA, id) \in DisplayNames(listB)

RouteResolvable(tr, A, B) ==
  /\ tr.intent # Empty => Translatable(A.intents, B.intents, tr.intent)
  /\ tr.trigger_fulfillment.webhook # Empty
       => Translatable(A.webhooks, B.webhooks, tr.trigger_fulfillment.webhook)
  /\ (tr.target_page # Empty /\ Last(tr.target_page) # "END_FLOW")
       => Translatable(A.pages, B.pages, tr.target_page)

RouteAsClaimed(tr, out, A, B) ==
  /\ out.intent = IF tr.intent = Empty THEN Empty
                  ELSE Translated(A.intents, B.intents, tr.intent)
  /\ out.trigger_fulfillment.webhook =
       IF tr.trigger_fulfillment.webhook = Empty THEN Empty
       ELSE Translated(A.webhooks, B.webhooks, tr.trigger_fulfillment.webhook)
  /\ out.target_page =
       IF tr.target_page = Empty THEN Empty
       ELSE IF Last(tr.target_page) = "END_FLOW" THEN FlowB \o <<"pages", "END_FLOW">>
       ELSE Translated(A.pages, B.pages, tr.target_page)

GroupStepReached == CreateCalls("list_pages") # {}

C8_RouteGroupRewriting ==
  (/\ BulkDone /\ GroupStepReached
   /\ args.destination_flow \in DisplayNames(svc[AgentB].flows)
   /\ \A g \in SelectedGroups : \A tr \in Range(g.transition_routes) :
        RouteResolvable(tr, svc[AgentA], svc[AgentB]))
    => \A g \in SelectedGroups :
         \E k \in CreateCalls("create_transition_route_group") :
           /\ calls[k].obj.display_name = g.display_name
           /\ calls[k].parent = FlowB
           /\ Len(calls[k].obj.transition_routes) = Len(g.transition_routes)
           /\ \A j \in DOMAIN g.transition_routes :
                RouteAsClaimed(g.transition_routes[j], calls[k].obj.transition_routes[j],
                               svc[AgentA], svc[AgentB])

----------------------------------------------------------------------------
(* C9  Intent two-hop translation: the intent that copy_paste_agent_       *)
(* resources or copy_intent_to_agent passes to create_intent has every     *)
(* parameter whose entity type does not contain 'sys.' set to the          *)
(* destination's identifier of the entity type that has the display name   *)
(* of the source entity type, and every other parameter unchanged.         *)

ParamTwoHop(e, out, A, B) ==
  IF ContainsSys(e) THEN out = e
  ELSE /\ Translatable(A.entity_types, B.entity_types, e)
       /\ out = Translated(A.entity_types, B.entity_types, e)

C9_IntentTwoHop ==
  \A k \in CreateCalls("create_intent") :
    /\ calls[k].obj.name \in Names(svc[AgentA].intents)
    /\ LET source == get_intent(svc, calls[k].obj.name)
       IN  /\ Len(calls[k].obj.parameters) = Len(source.parameters)
           /\ \A j \in DOMAIN source.parameters :
                ParamTwoHop(source.parameters[j].entity_type,
                            calls[k].obj.parameters[j].entity_type,
                            svc[AgentA], svc[AgentB])

\* a bulk copy has passed on an intent with a built-in and a custom entity
\* type, the custom one created in the destination by the same run
C9_Witness ==
  /\ BulkDone /\ pc = "once"
  /\ \E k \in CreateCalls("create_intent") :
       /\ calls[k].ok
       /\ \E j \in DOMAIN calls[k].obj.parameters :
            ContainsSys(calls[k].obj.parameters[j].entity_type)
       /\ \E j \in DOMAIN calls[k].obj.parameters :
            /\ ~ContainsSys(calls[k].obj.parameters[j].entity_type)
            /\ \E c \in CreateCalls("create_entity_type") :
                 /\ calls[c].ok /\ c < k
                 /\ NewId("entity_types", calls[c].obj.display_name)
                      = calls[k].obj.parameters[j].entity_type

----------------------------------------------------------------------------
(* C11  (as claimed) The copy operations never mutate an object fetched    *)
(* from the source agent: after copy_paste_agent_resources or              *)
(* copy_intent_to_agent, every object that list_webhooks,                  *)
(* list_entity_types, list_intents, list_transition_route_groups or        *)
(* get_intent returned to the call is equal to the source agent's          *)
(* resource of that name.                                                  *)

SourceResources(A) ==
  Range(A.webhooks) \cup Range(A.entity_types) \cup Range(A.intents) \cup Range(A.route_groups)

C11_FetchedObjectsUnchanged ==
  ret.op \in {"copy_paste_agent_resources", "copy_intent_to_agent"}
    => \A k \in DOMAIN heap : heap[k] \in SourceResources(svc[AgentA])

----------------------------------------------------------------------------
(* C12  Built-in entity passthrough: convert_page_dependencies, in either  *)
(* direction, never uses an entity type containing 'sys.' as a key of the  *)
(* entities map (no KeyError names one) and returns every form parameter   *)
(* that has such an entity type with that entity type, also when the       *)
(* agent has no entity type at all.                                        *)

SysParamsKept(pre, post) ==
  \A k \in DOMAIN pre : \A j \in DOMAIN pre[k].form.parameters :
    ContainsSys(pre[k].form.parameters[j].entity_type)
      => post[k].form.parameters[j].entity_type = pre[k].form.parameters[j].entity_type

C12_BuiltInEntityPassthrough ==
  /\ (ret.op \in {"convert_source", "convert_destination"} /\ ret.raised)
       => ~ContainsSys(ret.key)
  /\ SourceReturned => SysParamsKept(heap[1], heap[ret.ref])
  /\ DestinationReturned => SysParamsKept(heap[2], heap[ret.ref])

\* a page with a built-in entity type has come back from both directions, the
\* destination agent having no entity type
C12_Witness ==
  /\ DestinationReturned
  /\ svc[AgentB].entity_types = <<>>
  /\ \E k \in DOMAIN heap[1] : \E j \in DOMAIN heap[1][k].form.parameters :
       /\ ContainsSys(heap[1][k].form.parameters[j].entity_type)
       /\ heap[ret.ref][k].form.parameters[j].entity_type = SysNumber

----------------------------------------------------------------------------
(* C13  Portable representation: when convert_page_dependencies returns    *)
(* in the source direction, every reference of the returned pages that is  *)
(* set (entry-fulfillment webhook; intent, webhook and target page of each *)
(* transition route; webhook and target page of each event handler;        *)
(* non-system entity type, initial-prompt webhook and reprompt handlers'    *)
(* webhook and target page of each form parameter; each route-group        *)
(* reference) is the display name of a resource of the source agent or a   *)
(* bare sentinel, and none is an identifier of the source agent.           *)

PortableRefs(pages) ==
  WebhookRefs(pages) \cup IntentRefs(pages) \cup TargetRefs(pages) \cup EntityRefs(pages)
    \cup GroupRefs(pages)

C13_PortableRepresentation ==
  SourceReturned =>
    /\ WebhookRefs(heap[ret.ref]) \subseteq DisplayNames(svc[AgentA].webhooks)
    /\ IntentRefs(heap[ret.ref]) \subseteq DisplayNames(svc[AgentA].intents)
    /\ TargetRefs(heap[ret.ref])
         \subseteq DisplayNames(svc[AgentA].pages) \cup {<<t>> : t \in PageSentinels}
    /\ EntityRefs(heap[ret.ref]) \subseteq DisplayNames(svc[AgentA].entity_types)
    /\ GroupRefs(heap[ret.ref]) \subseteq DisplayNames(svc[AgentA].route_groups)
    /\ \A x \in PortableRefs(heap[ret.ref]) : ~IsUnder(x, AgentA)

\* two pages with every kind of reference set have been made portable
C13_Witness ==
  /\ SourceReturned
  /\ Len(heap[1]) = 2
  /\ \A k \in DOMAIN heap[1] :
       /\ heap[1][k].entry_fulfillment.webhook # Empty
       /\ heap[1][k].transition_routes # <<>> /\ heap[1][k].event_handlers # <<>>
       /\ heap[1][k].transition_route_groups # <<>>
       /\ \E j \in DOMAIN heap[1][k].form.parameters :
            /\ heap[1][k].form.parameters[j].fill_behavior.initial_prompt_fulfillment.webhook
                 # Empty
            /\ heap[1][k].form.parameters[j].fill_behavior.reprompt_event_handlers # <<>>
  /\ \E x \in PortableRefs(heap[1]) : IsUnder(x, AgentA)

----------------------------------------------------------------------------
(* C14  Selection and skip filtering in copy_paste_agent_resources.        *)

\* the category of resource_dict and skip_list that a collaborator call belongs to
CategoryOf ==
  [create_entity_type |-> "entities", create_intent |-> "intents",
   create_webhook |-> "webhooks", create_transition_route_group |-> "route_groups",
   list_entity_types |-> "entities", list_intents |-> "intents",
   list_webhooks |-> "webhooks", list_transition_route_groups |-> "route_groups"]

CreateOps ==
  {"create_entity_type", "create_intent", "create_webhook", "create_transition_route_group"}

\* the listing calls of that kind made on the source agent
SourceListings(op) ==
  {k \in CreateCalls(op) : IsUnder(calls[k].parent, AgentA)}

\* a creation call is made only for a resource whose category is not skipped
\* and whose identifier is selected
OnlySelectedCreated ==
  \A k \in DOMAIN calls : calls[k].op \in CreateOps =>
    /\ CategoryOf[calls[k].op] \notin args.skip_list
    /\ calls[k].obj.name \in args.resource_dict[CategoryOf[calls[k].op]]

(* C14  (as claimed) ... and for a category in skip_list no source listing *)
(* call and no creation call of that category is made.                     *)

C14_NoListingOfSkipped ==
  BulkDone =>
    /\ OnlySelectedCreated
    /\ \A k \in DOMAIN calls :
         (calls[k].op \in DOMAIN CategoryOf /\ CategoryOf[calls[k].op] \in args.skip_list)
           => ~(calls[k].op \in CreateOps \/ IsUnder(calls[k].parent, AgentA))

(* C14  (amended) A resource is submitted for creation only if its         *)
(* category is not in skip_list and its identifier is in the selection     *)
(* for that category.  For a category in skip_list no creation call of     *)
(* that category is made and no resource of that category is fetched for   *)
(* copying; the source listings of a skipped category that are still made  *)
(* are those of the index maps: entity types once when intents are pasted, *)
(* intents and webhooks once each when route groups are pasted, route      *)
(* groups never.                                                           *)

C14_SelectionAndSkipFiltering ==
  BulkDone =>
    /\ OnlySelectedCreated
    /\ \A k \in DOMAIN heap :
         \E c \in {"entities", "intents", "webhooks", "route_groups"} :
           c \notin args.skip_list /\ heap[k].name \in args.resource_dict[c]
    /\ "entities" \in args.skip_list =>
         Cardinality(SourceListings("list_entity_types"))
           = IF CreateCalls("sleep") # {} THEN 1 ELSE 0
    /\ "intents" \in args.skip_list =>
         Cardinality(SourceListings("list_intents")) = IF GroupStepReached THEN 1 ELSE 0
    /\ "webhooks" \in args.skip_list =>
         Cardinality(SourceListings("list_webhooks")) = IF GroupStepReached THEN 1 ELSE 0
    /\ "route_groups" \in args.skip_list =>
         SourceListings("list_transition_route_groups") = {}

\* intents are skipped though selected, and a selected route group has been
\* passed on for creation, after the source's intents were listed for the index
C14_Witness ==
  /\ BulkDone
  /\ "intents" \in args.skip_list /\ args.resource_dict.intents # {}
  /\ CreateCalls("create_intent") = {}
  /\ CreateCalls("create_transition_route_group") # {}
  /\ Cardinality(SourceListings("list_intents")) = 1

----------------------------------------------------------------------------
(* C15  Over the copy operations and the page-shell creation, run in any   *)
(* order the callers allow, the source agent's resources are never         *)
(* changed and the destination's are only added to: every listing of the   *)
(* destination after an operation starts with the listing before it, and   *)
(* it has grown by exactly the number of creation calls that succeeded, so *)
(* a refused creation leaves the destination as it was.                    *)

IsPrefixOf(a, b) == Len(a) <= Len(b) /\ SubSeq(b, 1, Len(a)) = a

Size(B) ==
  Len(B.flows) + Len(B.webhooks) + Len(B.entity_types) + Len(B.intents)
    + Len(B.route_groups) + Len(B.pages)

Succeeded(log) ==
  Cardinality({k \in DOMAIN log : log[k].op \in DOMAIN ListingOf /\ log[k].ok})

C15_SourceKeptDestinationGrows ==
  [][/\ svc'[AgentA] = svc[AgentA]
     /\ \A c \in {"flows", "webhooks", "entity_types", "intents", "route_groups", "pages"} :
          IsPrefixOf(svc[AgentB][c], svc'[AgentB][c])
     /\ Size(svc'[AgentB]) = Size(svc[AgentB]) + Succeeded(calls')]_vars

\* an operation has added to the destination and has been refused a namesake
C15_Witness ==
  /\ pc = "once" /\ args.faults = {}
  /\ \E k \in DOMAIN calls : calls[k].op \in DOMAIN ListingOf /\ calls[k].ok
  /\ \E k \in DOMAIN calls : calls[k].op \in DOMAIN ListingOf /\ ~calls[k].ok
  /\ svc[AgentB] \notin {BlankB, FreshB, SparseB, MirrorB}

----------------------------------------------------------------------------
(* C16  Page-shell pre-creation.                                           *)

\* the create_page calls of a log, in order
PageCalls(log) == SelectSeq(log, LAMBDA x : x.op = "create_page")

\* one create_page call per listed page, in list order, in the destination
\* flow; the pages that were there are unchanged, and every page whose
\* creation succeeded is now a page of the flow
ShellsAsClaimed(pages_list, log, before, after) ==
  /\ Len(PageCalls(log)) = Len(pages_list)
  /\ \A i \in DOMAIN pages_list :
       /\ PageCalls(log)[i].obj.display_name = pages_list[i].display_name
       /\ PageCalls(log)[i].parent = FlowB
       /\ PageCalls(log)[i].ok
            => pages_list[i].display_name \in DisplayNames(list_pages(after, FlowB))
  /\ IsPrefixOf(before[AgentB].pages, after[AgentB].pages)

(* C16  (as claimed) create_page_shells issues one create_page call in the *)
(* destination flow for each page of the list, in list order, whatever     *)
(* fails, and does not raise; every page whose creation succeeded is then  *)
(* a page of the destination flow and the earlier pages are unchanged.     *)

----------------------------------------------------------------------------
(* C17  convert_start_page_dependencies is the page rewriter restricted to *)
(* transition routes.  In either direction: a route whose target is no     *)
(* sentinel of one rewriter only comes back exactly as                     *)
(* convert_page_dependencies translates a transition route; a route to     *)
(* START_PAGE has its intent and trigger-fulfillment webhook translated    *)
(* the same way and its target made the bare (source) or flow-qualified    *)
(* (destination) START_PAGE; END_SESSION and CURRENT_PAGE are looked up as *)
(* ordinary pages; a KeyError is one the page rewriter raises for a route  *)
(* too, or the miss of such a sentinel; every other part of the start page *)
(* is equal to the input.                                                  *)

StartDirection == IF ret.op = "convert_start_source" THEN "source" ELSE "destination"
StartAgent == IF ret.op = "convert_start_source" THEN AgentA ELSE AgentB
StartInput == heap[IF ret.op = "convert_start_source" THEN 1 ELSE 2]
StartOutput == heap[IF ret.op = "convert_start_source" THEN 2 ELSE 3]

\* the sentinel t names, in the form the direction reads it, or "" when none
SentinelOf(t, direction) ==
  IF t = Empty THEN ""
  ELSE IF direction = "source"
       THEN (IF Last(t) \in PageSentinels \cup StartSentinels THEN Last(t) ELSE "")
       ELSE (IF Len(t) = 1 /\ t[1] \in PageSentinels \cup StartSentinels THEN t[1] ELSE "")

OnlyStartSentinel(t, direction) == SentinelOf(t, direction) \in StartSentinels \ PageSentinels
OnlyPageSentinel(t, direction) == SentinelOf(t, direction) \in PageSentinels \ StartSentinels

\* a sentinel in the form the direction writes it
WrittenSentinel(x, m) ==
  IF m.direction = "source" THEN <<x>> ELSE m.flow_id \o <<"pages", x>>

\* the route without its target
Untargeted(tr) == [tr EXCEPT !.target_page = Empty]

StartRouteAsPageRoute(tr, out, m) ==
  IF OnlyStartSentinel(tr.target_page, m.direction)
  THEN /\ ~RewriteTransitionRoute(Untargeted(tr), m).raised
       /\ out = [RewriteTransitionRoute(Untargeted(tr), m).val
                   EXCEPT !.target_page = WrittenSentinel(SentinelOf(tr.target_page, m.direction), m)]
  ELSE IF OnlyPageSentinel(tr.target_page, m.direction)
  THEN /\ ~RewriteTransitionRoute(Untargeted(tr), m).raised
       /\ tr.target_page \in DOMAIN m.pages
       /\ out = [RewriteTransitionRoute(Untargeted(tr), m).val
                   EXCEPT !.target_page = m.pages[tr.target_page]]
  ELSE /\ ~RewriteTransitionRoute(tr, m).raised
       /\ out = RewriteTransitionRoute(tr, m).val

StartRouteFailsAsPageRoute(tr, key, m) ==
  IF OnlyStartSentinel(tr.target_page, m.direction)
  THEN RewriteTransitionRoute(Untargeted(tr), m) = Fail(RewriteTransitionRoute(Untargeted(tr), m).val, key)
  ELSE IF OnlyPageSentinel(tr.target_page, m.direction)
  THEN \/ key = tr.target_page /\ tr.target_page \notin DOMAIN m.pages
       \/ RewriteTransitionRoute(Untargeted(tr), m).raised
            /\ RewriteTransitionRoute(Untargeted(tr), m).key = key
  ELSE RewriteTransitionRoute(tr, m).raised /\ RewriteTransitionRoute(tr, m).key = key

StartAsPageRewriter(in, out, raised, key, mr) ==
  IF mr.raised THEN raised /\ key = mr.key
  ELSE IF raised
  THEN /\ \E i \in DOMAIN in.transition_routes :
            /\ StartRouteFailsAsPageRoute(in.transition_routes[i], key, mr.val)
            /\ \A j \in 1..(i - 1) :
                 StartRouteAsPageRoute(in.transition_routes[j], out.transition_routes[j], mr.val)
  ELSE /\ out = [in EXCEPT !.transition_routes = out.transition_routes]
       /\ Len(out.transition_routes) = Len(in.transition_routes)
       /\ \A i \in DOMAIN in.transition_routes :
            StartRouteAsPageRoute(in.transition_routes[i], out.transition_routes[i], mr.val)

C17_StartPageRefinement ==
  ret.op \in {"convert_start_source", "convert_start_destination"}
    => StartAsPageRewriter(StartInput, StartOutput, ret.raised, ret.key,
                           IndexMaps(svc, StartAgent, StartDirection, args.flow))

\* a start page with a route to START_PAGE and a route with a webhook and a
\* page target has gone through both directions
C17_Witness ==
  /\ ret.op = "convert_start_destination" /\ ~ret.raised
  /\ \E i, j \in DOMAIN heap[1].transition_routes :
       /\ heap[1].transition_routes[i].target_page = SentinelPath(FlowA, "START_PAGE")
       /\ heap[3].transition_routes[i].target_page = SentinelPath(FlowB, "START_PAGE")
       /\ heap[1].transition_routes[j].trigger_fulfillment.webhook = w1
       /\ heap[3].transition_routes[j].intent # heap[1].transition_routes[j].intent
  /\ heap[3].event_handlers = heap[1].event_handlers

----------------------------------------------------------------------------
(* C18  Identity index builder: for every category and every listing, the  *)
(* forward map has exactly one entry identifier -> display name per listed *)
(* resource; the reverse map has the listed display names as its keys,     *)
(* each with the identifier of the last listed resource of that display    *)
(* name, so that it is the exact inverse of the forward map when display   *)
(* names are unique.                                                       *)

IsForwardMap(map, list) ==
  /\ DOMAIN map = Names(list)
  /\ Cardinality(DOMAIN map) = Len(list)
  /\ \A i \in DOMAIN list : map[list[i].name] = list[i].display_name

IsInverseOf(map, forward) ==
  /\ DOMAIN map = {forward[k] : k \in DOMAIN forward}
  /\ \A k \in DOMAIN forward : map[forward[k]] = k

IsReverseMap(map, list) ==
  /\ DOMAIN map = DisplayNames(list)
  /\ \A i \in DOMAIN list :
       (\A j \in DOMAIN list : list[j].display_name = list[i].display_name => j <= i)
         => map[list[i].display_name] = list[i].name
  /\ UniqueDisplayNames(list)
       => IsInverseOf(map, [k \in Names(list) |-> DisplayNameOf(list, k)])

C18_IdentityIndex ==
  args.kind = "index" /\ pc = "done"
    => IF ret.val.reverse THEN IsReverseMap(ret.val.map, svc[AgentA][args.category])
       ELSE IsForwardMap(ret.val.map, svc[AgentA][args.category])

\* a reverse map of a listing of three in which the first and the last
\* resource share a display name
C18_Witness ==
  /\ args.kind = "index" /\ pc = "done" /\ ret.val.reverse
  /\ Len(svc[AgentA][args.category]) = 3
  /\ svc[AgentA][args.category][1].display_name = svc[AgentA][args.category][3].display_name
  /\ svc[AgentA][args.category][2].display_name # svc[AgentA][args.category][3].display_name
  /\ ret.val.map[svc[AgentA][args.category][3].display_name] = svc[AgentA][args.category][3].name

----------------------------------------------------------------------------
(* C19  Route-group reference list: when convert_page_dependencies         *)
(* returns, each page has as many route-group references as it came with,  *)
(* in the same order, each the translation of the reference at its         *)
(* position: the display name the source agent's flow lists for the        *)
(* identifier (source), the identifier the destination agent's flow lists  *)
(* for the display name (destination).                                     *)

GroupRefsTranslated(pre, post, s, flow_id, toName) ==
  /\ Len(post) = Len(pre)
  /\ \A k \in DOMAIN pre :
       /\ Len(post[k].transition_route_groups) = Len(pre[k].transition_route_groups)
       /\ \A j \in DOMAIN pre[k].transition_route_groups :
            /\ \E g \in Range(list_transition_route_groups(s, flow_id)) :
                 IF toName
                 THEN /\ g.name = pre[k].transition_route_groups[j]
                      /\ g.display_name = post[k].transition_route_groups[j]
                 ELSE /\ g.display_name = pre[k].transition_route_groups[j]
                      /\ g.name = post[k].transition_route_groups[j]

C19_RouteGroupReferenceList ==
  /\ SourceReturned => GroupRefsTranslated(heap[1], heap[2], svc, FlowA, TRUE)
  /\ DestinationReturned => GroupRefsTranslated(heap[2], heap[3], svc, FlowB, FALSE)

\* a page with two route-group references has gone through both directions
C19_Witness ==
  /\ DestinationReturned
  /\ \E k \in DOMAIN heap[1] :
       /\ heap[1][k].transition_route_groups = <<g2, g1>>
       /\ heap[2][k].transition_route_groups = <<<<"Extra">>, <<"Common">>>>
       /\ Len(heap[3][k].transition_route_groups) = 2
       /\ heap[3][k].transition_route_groups[1] # heap[3][k].transition_route_groups[2]

----------------------------------------------------------------------------
(* C20  Pacing: in a run of copy_paste_agent_resources every create_intent *)
(* call comes right after a pacing delay, the only one since the previous  *)
(* creation call; no pacing delay lies between a webhook, entity-type or   *)
(* route-group creation and the creation call before it; and no creation   *)
(* call is made twice for the same resource.                               *)

\* the position of the last creation call before position k, or 0
CreationBefore(log, k) ==
  IF \E j \in 1..(k - 1) : log[j].op \in CreateOps
  THEN CHOOSE j \in 1..(k - 1) :
         /\ log[j].op \in CreateOps
         /\ \A i \in (j + 1)..(k - 1) : log[i].op \notin CreateOps
  ELSE 0

DelaysBefore(log, k) ==
  Cardinality({i \in (CreationBefore(log, k) + 1)..(k - 1) : log[i].op = "sleep"})

PacedAsClaimed(log) ==
  /\ \A k \in DOMAIN log :
       log[k].op = "create_intent"
         => k > 1 /\ log[k - 1].op = "sleep" /\ DelaysBefore(log, k) = 1
  /\ \A k \in DOMAIN log :
       log[k].op \in CreateOps \ {"create_intent"} => DelaysBefore(log, k) = 0
  /\ \A k, l \in DOMAIN log :
       (log[k].op \in CreateOps /\ log[l].op = log[k].op /\ log[l].obj.name = log[k].obj.name)
         => k = l

C20_Pacing == BulkDone => PacedAsClaimed(calls)

\* a run that made two intent creations and creations of the other categories
C20_Witness ==
  /\ BulkDone /\ ~ret.raised
  /\ Cardinality(CreateCalls("create_intent")) = 2
  /\ CreateCalls("create_webhook") # {}
  /\ CreateCalls("create_entity_type") # {}
  /\ CreateCalls("create_transition_route_group") # {}
  /\ Cardinality({k \in DOMAIN calls : calls[k].op = "sleep"}) = 2

----------------------------------------------------------------------------
(* C21  Ordering inside copy_paste_agent_resources.                        *)

ListOps ==
  {"list_flows", "list_intents", "list_entity_types", "list_webhooks", "list_pages",
   "list_transition_route_groups"}

\* the listing calls made on the source agent, and the creation calls
SourceListingCalls ==
  {k \in DOMAIN calls : calls[k].op \in ListOps /\ IsUnder(calls[k].parent, AgentA)}
CreationCalls == {k \in DOMAIN calls : calls[k].op \in CreateOps}

\* the listing calls of that kind made on the destination agent
DestinationListings(op) == {k \in CreateCalls(op) : IsUnder(calls[k].parent, AgentB)}

PasteRank ==
  [create_webhook |-> 1, create_entity_type |-> 2, create_intent |-> 3,
   create_transition_route_group |-> 4]

\* creation attempts go category by category: webhooks, entity types, intents,
\* route groups
CategoryByCategory ==
  \A k, l \in CreationCalls : k < l => PasteRank[calls[k].op] <= PasteRank[calls[l].op]

\* the destination index of entity types is read when every selected entity
\* type has had its attempt, and before the first intent is created
EntityIndexAfterEntities ==
  \A k \in DestinationListings("list_entity_types") :
    /\ \A c \in CreateCalls("create_entity_type") : c < k
    /\ Cardinality(CreateCalls("create_entity_type")) = Cardinality(SelectedEntities)
    /\ \A c \in CreateCalls("create_intent") : k < c

\* the destination indexes of intents and webhooks are read when every
\* selected intent and webhook has had its attempt, and before the first
\* route group is created
GroupIndexesAfterIntentsAndWebhooks ==
  \A k \in DestinationListings("list_intents") \cup DestinationListings("list_webhooks") :
    /\ \A c \in CreateCalls("create_intent") \cup CreateCalls("create_webhook") : c < k
    /\ Cardinality(CreateCalls("create_intent")) = Cardinality(SelectedIntents)
    /\ Cardinality(CreateCalls("create_webhook")) = Cardinality(SelectedWebhooks)
    /\ \A c \in CreateCalls("create_transition_route_group") : k < c

(* C21  (as claimed) Every source listing call precedes the first creation *)
(* call; creation attempts are issued category by category in the order    *)
(* webhooks, entity types, intents, route groups; the destination          *)
(* entity-type index is read only after every selected entity type has had *)
(* its attempt, and the destination intent and webhook indexes only after  *)
(* every selected intent and webhook has had its attempt.                  *)

C21_AllSourceListingsFirst ==
  BulkDone =>
    /\ \A k \in SourceListingCalls : \A c \in CreationCalls : k < c
    /\ CategoryByCategory
    /\ EntityIndexAfterEntities
    /\ GroupIndexesAfterIntentsAndWebhooks

\* a source listing that builds an index map of the PASTE phase: entity types
\* at the head of the intents step, intents, webhooks and pages at the head of
\* the route-group step
IndexListing(k) ==
  \/ /\ calls[k].op = "list_entity_types"
     /\ \A c \in CreationCalls :
          IF c < k THEN PasteRank[calls[c].op] <= 2 ELSE PasteRank[calls[c].op] >= 3
  \/ /\ calls[k].op \in {"list_intents", "list_webhooks", "list_pages"}
     /\ \A c \in CreationCalls :
          IF c < k THEN PasteRank[calls[c].op] <= 3 ELSE PasteRank[calls[c].op] = 4

(* C21  (amended) Every source listing call that fetches the resources to  *)
(* copy precedes the first creation call; the only source listings made    *)
(* later are those of the index maps, entity types at the head of the      *)
(* intents step and intents, webhooks and pages at the head of the         *)
(* route-group step.  Creation attempts are issued category by category in *)
(* the order webhooks, entity types, intents, route groups; the            *)
(* destination entity-type index is read only after every selected entity  *)
(* type has had its attempt, and the destination intent and webhook        *)
(* indexes only after every selected intent and webhook has had its        *)
(* attempt, so a resource created earlier in the run is resolved by a      *)
(* later one.                                                              *)

C21_PasteOrdering ==
  BulkDone =>
    /\ \A k \in SourceListingCalls : (\A c \in CreationCalls : k < c) \/ IndexListing(k)
    /\ \A op \in {"list_entity_types", "list_intents", "list_webhooks",
                   "list_transition_route_groups"} :
         CategoryOf[op] \notin args.skip_list
           => \E k \in SourceListings(op) : \A c \in CreationCalls : k < c
    /\ CategoryByCategory
    /\ EntityIndexAfterEntities
    /\ GroupIndexesAfterIntentsAndWebhooks

\* a route group created with the identifier of an intent created earlier in
\* the same run, itself created with the identifier of an entity type
\* created earlier in the run
C21_Witness ==
  /\ BulkDone /\ pc = "once" /\ ~ret.raised
  /\ \E e \in CreateCalls("create_entity_type"), i \in CreateCalls("create_intent"),
        g \in CreateCalls("create_transition_route_group") :
       /\ calls[e].ok /\ calls[i].ok /\ calls[g].ok /\ e < i /\ i < g
       /\ \E j \in DOMAIN calls[i].obj.parameters :
            calls[i].obj.parameters[j].entity_type
              = NewId("entity_types", calls[e].obj.display_name)
       /\ \E j \in DOMAIN calls[g].obj.transition_routes :
            calls[g].obj.transition_routes[j].intent
              = NewId("intents", calls[i].obj.display_name)

----------------------------------------------------------------------------
(* C22  A lookup miss during bulk rewriting is not covered by the          *)
(* per-creation guard.  When the first selected intent that has a          *)
(* parameter whose entity type is not in the source index or whose display *)
(* name is not in the destination index is reached, or, the intents done,  *)
(* the first selected route group with a route whose intent, webhook or    *)
(* target page misses, copy_paste_agent_resources raises: the resources    *)
(* before it have had their creation attempt, it and the later intents and *)
(* route groups have none, and everything created earlier in the run is in *)
(* the destination.                                                        *)

\* the selected resources of a category in the order of the source listing
SelectedInOrder(list, category) ==
  IF category \in args.skip_list THEN <<>>
  ELSE Selected(list, args.resource_dict[category])

IntentMisses(i, A, B) ==
  \E j \in DOMAIN i.parameters :
    /\ ~ContainsSys(i.parameters[j].entity_type)
    /\ ~Translatable(A.entity_types, B.entity_types, i.parameters[j].entity_type)

\* tr.intent is looked up whether or not the route has an intent
GroupMisses(g, A, B) ==
  \E j \in DOMAIN g.transition_routes :
    g.transition_routes[j].intent = Empty \/ ~RouteResolvable(g.transition_routes[j], A, B)

\* the run raised when it came to the n-th resource of the loop
RaisedAt(op, seq, n) ==
  /\ ret.raised
  /\ \A m \in 1..(n - 1) : Attempts(op, seq[m]) = 1
  /\ \A m \in n..Len(seq) : Attempts(op, seq[m]) = 0

IntentMissRaises(ints, A, B) ==
  \A n \in DOMAIN ints :
    (IntentMisses(ints[n], A, B) /\ \A m \in 1..(n - 1) : ~IntentMisses(ints[m], A, B))
      => (RaisedAt("create_intent", ints, n) /\ CreateCalls("create_transition_route_group") = {})

GroupMissRaises(grps, A, B) ==
  \A n \in DOMAIN grps :
    (GroupMisses(grps[n], A, B) /\ \A m \in 1..(n - 1) : ~GroupMisses(grps[m], A, B))
      => RaisedAt("create_transition_route_group", grps, n)

\* what a creation call of the run created is in the destination
CreatedKept ==
  \A k \in DOMAIN calls :
    (calls[k].op \in CreateOps /\ calls[k].ok)
      => \E r \in Range(svc[AgentB][ListingOf[calls[k].op]]) :
           /\ r.display_name = calls[k].obj.display_name
           /\ r.name = NewId(ListingOf[calls[k].op], calls[k].obj.display_name)

C22_LookupMissAborts ==
  BulkDone =>
    /\ IntentMissRaises(SelectedInOrder(svc[AgentA].intents, "intents"), svc[AgentA], svc[AgentB])
    /\ (/\ \A i \in SelectedIntents : ~IntentMisses(i, svc[AgentA], svc[AgentB])
        /\ args.destination_flow \in DisplayNames(svc[AgentB].flows))
         => GroupMissRaises(SelectedInOrder(svc[AgentA].route_groups, "route_groups"),
                            svc[AgentA], svc[AgentB])
    /\ CreatedKept

\* a run that created a webhook, then raised on the first of two selected
\* intents
C22_Witness ==
  /\ BulkDone /\ pc = "once" /\ ret.raised
  /\ \E k \in CreateCalls("create_webhook") : calls[k].ok
  /\ Len(SelectedInOrder(svc[AgentA].intents, "intents")) = 2
  /\ IntentMisses(SelectedInOrder(svc[AgentA].intents, "intents")[1], svc[AgentA], svc[AgentB])
  /\ CreateCalls("create_intent") = {}
  /\ CreateCalls("sleep") # {}

----------------------------------------------------------------------------
(* C23  create_page_shells with a destination_flow display name that the   *)
(* destination agent does not have makes no create_page call at all and    *)
(* raises no error, whatever the list of pages: the flows are listed once, *)
(* the lookup miss is swallowed for every page, and the destination is     *)
(* left unchanged.                                                         *)

C23_MissingFlowSwallowed ==
  [][(/\ args.kind = "shells" /\ pc' # pc
      /\ args.destination_flow \notin DisplayNames(svc[AgentB].flows))
       => /\ ~ret'.raised
          /\ calls' = <<Call("list_flows", AgentB, Empty, TRUE)>>
          /\ svc' = svc]_vars

\* two shells were asked for in a flow the destination does not have
C23_Witness ==
  /\ ret.op = "create_page_shells" /\ pc = "once" /\ ~ret.raised
  /\ args.destination_flow \notin DisplayNames(svc[AgentB].flows)
  /\ Len(args.pages_list) = 2
  /\ args.pages_list[1].display_name \notin DisplayNames(svc[AgentB].pages)
  /\ PageCalls(calls) = <<>>

----------------------------------------------------------------------------
(* C24  get_page_dependencies lists route groups exactly once, in the flow *)
(* named by the first eight path segments of the first page's name.  Every *)
(* route-group reference of every page is reported under route_groups; the *)
(* intents reported are those of the pages' own routes and those of the    *)
(* routes of the referenced route groups that belong to the first page's   *)
(* flow, a referenced route group of another flow contributing none; an    *)
(* empty page list fails before any collaborator call.                     *)

\* the flow a page name lies in: its first eight path segments
FlowOfPage(name) == SubSeq(name, 1, 8)

\* intents of the routes of the referenced route groups that lie in the flow
GroupIntentsIn(pages, A, flow_id) ==
  UNION {{tr.intent : tr \in Range(g.transition_routes)} :
         g \in {x \in Range(A.route_groups) :
                  x.name \in GroupRefs(pages) /\ FlowOfPage(x.name) = flow_id}} \ {Empty}

C24_RouteGroupsOfFirstFlow ==
  (args.kind = "extract" /\ ret.op = "get_page_dependencies")
    => IF heap[1] = <<>> THEN ret.raised /\ calls = <<>>
       ELSE /\ ~ret.raised
            /\ Len(calls) = 1
            /\ calls[1].op = "list_transition_route_groups"
            /\ calls[1].parent = FlowOfPage(heap[1][1].name)
            /\ ret.val.route_groups = GroupRefs(heap[1])
            /\ ret.val.intents \ {Empty}
                 = IntentRefs(heap[1])
                     \cup GroupIntentsIn(heap[1], svc[AgentA], FlowOfPage(heap[1][1].name))

\* the first page lies in the second flow and refers to its route group; the
\* second page lies in the first flow and refers to a route group of that flow,
\* which is reported and contributes no intent
C24_Witness ==
  /\ args.kind = "extract" /\ ret.op = "get_page_dependencies" /\ ~ret.raised
  /\ Len(heap[1]) = 2
  /\ heap[1][1].name = q1 /\ heap[1][1].transition_route_groups = <<k1>>
  /\ heap[1][2].name = p1 /\ heap[1][2].transition_route_groups = <<g1>>
  /\ heap[1][2].transition_routes = <<>>
  /\ ret.val.route_groups = {g1, k1}
  /\ ret.val.intents = {i2}

====
